---- MODULE Spec2Model ----
(***************************************************************************)
(* GrowmindAI: the inventory ledgers and the nutrient calculator.          *)
(*                                                                         *)
(*  - backend/app/inventory_db.py : SQLite ledger (apply_consumption,      *)
(*    set_stock), one row per component of COMPONENT_KEYS.                 *)
(*  - backend/nutrient_engine.py  : NutrientCalculator, whose stock lives  *)
(*    in a JSON state file guarded by a lock file.                         *)
(*                                                                         *)
(* Amounts of the SQLite ledger are integers in micrograms, so that the    *)
(* tolerance 1e-6 g of apply_consumption is one unit (EPS).  Amounts of    *)
(* the calculator (stock, mix, doses per litre) are integers in 0.01 g,    *)
(* the precision _round2 rounds to; litres are integers in 0.01 l.         *)
(***************************************************************************)
EXTENDS Integers, Sequences, FiniteSets, TLC

\* ------------------------------------------------------------------ bounds
\* Number of concurrent callers of the ledger and of the calculator.
Callers == 2
\* Number of ledger operations (apply_consumption, set_stock) in a behaviour.
MaxOps == 2
\* Number of calculator operations (mix_tank, consume_mix, preview_plan) in a behaviour.
MaxEngineOps == 2
MaxPlanOps == 3
MaxStoreOps == 4
MaxTries == 3
MaxRouteCalls == 4

\* ---------------------------------------------------------------- helpers
Max(a, b) == IF a >= b THEN a ELSE b
Min(a, b) == IF a <= b THEN a ELSE b

\* dict.get(key, 0.0) or 0.0
Get(d, k) == IF k \in DOMAIN d THEN d[k] ELSE 0

\* ----------------------------------------------- inventory_db.py (SQLite)
\* The comparison tolerance of apply_consumption, 1e-6 g: the unit of amount.
EPS == 1
\* One gram, in units of EPS.
Gram == 1000 * 1000 * EPS

COMPONENT_KEYS == {"A", "B", "C", "BURST"}
\* The tuple's order: the order in which the loops of apply_consumption run.
KeyOrder == <<"A", "B", "C", "BURST">>

\* _default_capacity: INVENTORY_START_<component>, floored at 0; 0 when unset.
_default_capacity(raw) == Max(0, raw)

\* The installations a behaviour starts in.  env: the INVENTORY_START_* values
\* of the ledger; data: what inventory.json holds before the calculator is
\* constructed ({} when the file is missing); plants: the raw plants_count setting;
\* store: the plan store the installation has (PlanStore).
Installations ==
    { [env |-> [A |-> 10 * Gram, B |-> 10 * Gram, C |-> 0, BURST |-> 0],
       data |-> [k \in {} |-> 0],
       plants |-> [int |-> TRUE, n |-> 3],
       store |-> "fresh"],
      [env |-> [A |-> 4 * Gram, B |-> 0 - 5 * Gram, C |-> 0, BURST |-> 0],
       data |-> [part_a |-> 1000, part_b |-> 0 - 400, kelp |-> 99999],
       plants |-> [int |-> FALSE, n |-> 0],
       store |-> "aged"] }

Proc == 1 .. Callers
NoProc == 0

\* The consumption dicts the callers pass.
Consumptions ==
    { [A |-> 6 * Gram],
      [A |-> 4 * Gram, B |-> 6 * Gram],
      [A |-> 4 * Gram + EPS],
      [A |-> 20 * Gram, B |-> 20 * Gram],
      [A |-> 0 - 3 * Gram, part_a |-> 999 * Gram] }

\* set_stock's arguments: component, grams, update_capacity.
SetArgs ==
    { <<"A", 0 - 5 * Gram, FALSE>>,
      <<"A", 20 * Gram, FALSE>>,
      <<"A", 4 * Gram, TRUE>>,
      <<"part_a", 4 * Gram, FALSE>> }

VARIABLES
    inventory,   \* table inventory: component -> [grams, initial_grams] (committed)
    db_lock,     \* the connection holding SQLite's write lock, or NoProc
    pc,          \* per caller: where it is in apply_consumption
    sanitized,   \* per caller: apply_consumption's sanitized dict
    current,     \* per caller: apply_consumption's dict current
    updated,     \* per caller: number of UPDATE statements executed
    request,     \* per caller: the consumption dict of its last call
    outcome,     \* per caller: what its last call returned or raised
    tries,       \* per caller: BEGIN IMMEDIATE executions of its current or last call
    last_set,    \* the last set_stock call: its arguments and its result
    ops,         \* number of ledger operations started so far
    state_file,  \* the calculator's inventory.json: key -> amount
    stock0,      \* the content of inventory.json once the calculator is constructed
    plants_count, \* the plants_count setting (app_settings.json, PLANTS_COUNT)
    epc,         \* per caller: where it is in mix_tank or consume_mix
    ecall,       \* per caller: its current or last calculator call
    repeats,     \* per caller: its current call has the arguments of its previous one
    emix,        \* per caller: the mix _consume_mix is subtracting
    loaded,      \* per caller: the state _load_state returned to it
    eout,        \* per caller: what its last calculator call returned or raised
    etries,      \* per caller: _load_state invocations of its current or last call
    eops,        \* number of calculator operations started so far
    calc,        \* the last evaluation of a pure function: name, arguments, result
    custom_plans, \* plan store, key customPlans: combo -> list of stored plans
    active_ids,  \* plan store, key activePlanIds: combo -> plan id
    default_overrides, \* plan store, key defaultPlanOverrides: combo -> plan
    uuids,       \* number of plan ids _generate_plan_id has handed out
    plan_out,    \* the last plan route called: its arguments and its response
    plan_ops,    \* number of mutating plan routes called so far
    pf_file,     \* PhotonFlux store: the content of persist.json
    pf_lock,     \* PhotonFlux store: the worker holding persist.json.lock, or NoProc
    pf_pc,       \* per worker: where it is in store_set or _load_store
    pf_call,     \* per worker: the key and the data of its current store_set
    pf_data,     \* per worker: the dict its last read of the file returned
    pf_done,     \* the store_set calls that have returned: <<key, data>>
    pf_ops,      \* number of store_set and _load_store calls started so far
    gen,         \* _generate_json_with_retry: its locals, and what it has done so far
    CLIENT,      \* PhotonFlux backend: the cached client, module global CLIENT
    req,         \* per worker thread: the plan route it runs and where it is in it
    req_ops      \* number of plan routes the worker threads have started

ledger_vars == <<inventory, db_lock, pc, sanitized, current, updated, request,
                 outcome, tries, last_set, ops>>
engine_vars == <<state_file, stock0, plants_count, epc, ecall, repeats, emix, loaded,
                 eout, etries, eops>>
calc_vars == <<calc>>
plan_vars == <<custom_plans, active_ids, default_overrides, uuids, plan_out, plan_ops>>
pf_vars == <<pf_file, pf_lock, pf_pc, pf_call, pf_data, pf_done, pf_ops>>
gen_vars == <<gen, CLIENT>>
req_vars == <<req, req_ops>>
vars == <<ledger_vars, engine_vars, calc_vars, plan_vars, pf_vars, gen_vars, req_vars>>
\* What the ledger's steps, and the calculator's steps, leave alone.
beside_ledger == <<engine_vars, calc_vars, plan_vars, pf_vars, gen_vars, req_vars>>
beside_engine == <<ledger_vars, calc_vars, plan_vars, pf_vars, gen_vars, req_vars>>
beside_calc == <<ledger_vars, engine_vars, plan_vars, pf_vars, gen_vars, req_vars>>
beside_plans == <<ledger_vars, engine_vars, calc_vars, pf_vars, gen_vars, req_vars>>
beside_pf == <<ledger_vars, engine_vars, calc_vars, plan_vars, gen_vars, req_vars>>
beside_gen == <<ledger_vars, engine_vars, calc_vars, plan_vars, pf_vars, req_vars>>
beside_req == <<ledger_vars, engine_vars, calc_vars, pf_vars, gen_vars>>

\* What a call returned or raised.  deficits: the components the message of an
\* InsufficientInventoryError names, each with the amounts the message gives.
NoOutcome == [kind |-> "none", deficits |-> {}]
Returned == [kind |-> "ok", deficits |-> {}]
\* sqlite3.OperationalError (database is locked, disk I/O error).
OperationalError == [kind |-> "storage", deficits |-> {}]
NoDict == [k \in COMPONENT_KEYS |-> 0]
NoRows == [k \in COMPONENT_KEYS |-> [grams |-> 0, initial_grams |-> 0]]
NoRequest == [none |-> 0]
NoSet == [args |-> <<"", 0, FALSE>>, result |-> "none"]

\* initialize(): every component gets a row with grams = initial_grams.
LedgerInit(start) ==
    /\ inventory = [k \in COMPONENT_KEYS |->
                      [grams |-> _default_capacity(start[k]),
                       initial_grams |-> _default_capacity(start[k])]]
    /\ db_lock = NoProc
    /\ pc = [p \in Proc |-> "idle"]
    /\ sanitized = [p \in Proc |-> NoDict]
    /\ current = [p \in Proc |-> NoRows]
    /\ updated = [p \in Proc |-> 0]
    /\ request = [p \in Proc |-> NoRequest]
    /\ outcome = [p \in Proc |-> NoOutcome]
    /\ tries = [p \in Proc |-> 0]
    /\ last_set = NoSet
    /\ ops = 0

\* Line 137: max(0.0, float(consumption.get(key, 0.0) or 0.0)) per COMPONENT_KEYS.
Sanitize(consumption) == [k \in COMPONENT_KEYS |-> Max(0, Get(consumption, k))]

\* Line 150: used > available + 1e-6.
Insufficient(used, available) == used > available + EPS

\* Line 156: max(0.0, current[component]["grams"] - used).
NewValueExact(grams, used) == grams - used
NewValue(grams, used) == Max(0, grams - used)

\* "{:.2f}" of the error message: the amount to the nearest 0.01 g.
Cent == 10000 * EPS
Fmt2(x) == ((x + Cent \div 2) \div Cent) * Cent

\* A validation loop that stops after its first turn.
DeficitsFirstOnly(san, cur) == {i \in {1} :
                                   Insufficient(san[KeyOrder[i]], cur[KeyOrder[i]].grams)}

\* Lines 148-154: the first component, in the loop's order, that is short.
Deficits(san, cur) == {i \in 1 .. Len(KeyOrder) :
                          Insufficient(san[KeyOrder[i]], cur[KeyOrder[i]].grams)}
FirstDeficit(san, cur) ==
    KeyOrder[CHOOSE i \in Deficits(san, cur) : \A j \in Deficits(san, cur) : i <= j]

InsufficientInventoryError(san, cur) ==
    LET c == FirstDeficit(san, cur)
    IN  [kind |-> "insufficient",
         deficits |-> {[component |-> c, used |-> Fmt2(san[c]),
                        available |-> Fmt2(cur[c].grams)]}]

\* apply_consumption is entered: lines 137-141.
Call(p, consumption) ==
    /\ pc[p] = "idle"
    /\ ops < MaxOps
    /\ ops' = ops + 1
    /\ request' = [request EXCEPT ![p] = consumption]
    /\ sanitized' = [sanitized EXCEPT ![p] = Sanitize(consumption)]
    /\ pc' = [pc EXCEPT ![p] = "begin"]
    /\ outcome' = [outcome EXCEPT ![p] = NoOutcome]
    /\ tries' = [tries EXCEPT ![p] = 0]
    /\ UNCHANGED <<inventory, db_lock, current, updated, last_set>>
    /\ UNCHANGED beside_ledger

\* A plain BEGIN: the transaction starts without the write lock.
BeginDeferred(p) ==
    /\ pc[p] = "begin"
    /\ db_lock' = p
    /\ pc' = [pc EXCEPT ![p] = "read"]
    /\ tries' = [tries EXCEPT ![p] = tries[p] + 1]
    /\ UNCHANGED <<inventory, sanitized, current, updated, request, outcome, last_set, ops>>
    /\ UNCHANGED beside_ledger

\* Line 143: BEGIN IMMEDIATE takes the write lock, waiting while another holds it.
Begin(p) ==
    /\ pc[p] = "begin"
    /\ db_lock = NoProc
    /\ db_lock' = p
    /\ pc' = [pc EXCEPT ![p] = "read"]
    /\ tries' = [tries EXCEPT ![p] = tries[p] + 1]
    /\ UNCHANGED <<inventory, sanitized, current, updated, request, outcome, last_set, ops>>
    /\ UNCHANGED beside_ledger

\* Lines 144-154: read every row, raise on the first deficit (the finally
\* clause rolls back and closes), or go on to the UPDATE loop.
ReadValidate(p) ==
    /\ pc[p] = "read"
    /\ IF Deficits(sanitized[p], inventory) # {}
       THEN /\ outcome' = [outcome EXCEPT ![p] =
                             InsufficientInventoryError(sanitized[p], inventory)]
            /\ pc' = [pc EXCEPT ![p] = "idle"]
            /\ db_lock' = IF db_lock = p THEN NoProc ELSE db_lock
            /\ sanitized' = [sanitized EXCEPT ![p] = NoDict]
            /\ UNCHANGED current
       ELSE /\ current' = [current EXCEPT ![p] = inventory]
            /\ pc' = [pc EXCEPT ![p] = "update"]
            /\ UNCHANGED <<outcome, db_lock, sanitized>>
    /\ UNCHANGED <<inventory, updated, request, tries, last_set, ops>>
    /\ UNCHANGED beside_ledger

\* Lines 155-161: one turn of the UPDATE loop, inside the open transaction.
UpdateRow(p) ==
    /\ pc[p] = "update"
    /\ updated[p] < Len(KeyOrder)
    /\ LET c == KeyOrder[updated[p] + 1]
       IN  current' = [current EXCEPT ![p][c].grams =
                         NewValue(current[p][c].grams, sanitized[p][c])]
    /\ updated' = [updated EXCEPT ![p] = updated[p] + 1]
    /\ UNCHANGED <<inventory, db_lock, pc, sanitized, request, outcome, tries, last_set, ops>>
    /\ UNCHANGED beside_ledger

\* Lines 162-168: commit makes the transaction's UPDATEs visible at once.
Commit(p) ==
    /\ pc[p] = "update"
    /\ updated[p] = Len(KeyOrder)
    /\ inventory' = [k \in COMPONENT_KEYS |->
                       [inventory[k] EXCEPT !.grams = current[p][k].grams]]
    /\ db_lock' = IF db_lock = p THEN NoProc ELSE db_lock
    /\ outcome' = [outcome EXCEPT ![p] = Returned]
    /\ pc' = [pc EXCEPT ![p] = "idle"]
    /\ sanitized' = [sanitized EXCEPT ![p] = NoDict]
    /\ current' = [current EXCEPT ![p] = NoRows]
    /\ updated' = [updated EXCEPT ![p] = 0]
    /\ UNCHANGED <<request, tries, last_set, ops>>
    /\ UNCHANGED beside_ledger

\* A set_stock that stores the amount it is given.
StoreAsGiven(grams) == grams

\* Line 176: grams = max(0.0, float(grams)).
ClampStock(grams) == Max(0, grams)

\* set_stock, lines 171-196.  The UPDATE takes the write lock and waits for it;
\* the row always exists after initialize().
set_stock(component, grams, update_capacity) ==
    /\ ops < MaxOps
    /\ ops' = ops + 1
    /\ IF component \notin COMPONENT_KEYS
       THEN /\ last_set' = [args |-> <<component, grams, update_capacity>>,
                            result |-> "InventoryError"]
            /\ UNCHANGED inventory
       ELSE /\ db_lock = NoProc
            /\ last_set' = [args |-> <<component, grams, update_capacity>>,
                            result |-> "ok"]
            /\ inventory' = [inventory EXCEPT ![component] =
                               [grams |-> ClampStock(grams),
                                initial_grams |-> IF update_capacity
                                                  THEN ClampStock(grams)
                                                  ELSE @.initial_grams]]
    /\ UNCHANGED <<db_lock, pc, sanitized, current, updated, request, outcome, tries>>
    /\ UNCHANGED beside_ledger

\* Line 143 when another connection keeps the write lock beyond the busy
\* timeout: BEGIN IMMEDIATE raises, the finally clause rolls back and closes.
BeginTimeout(p) ==
    /\ pc[p] = "begin"
    /\ db_lock \notin {NoProc, p}
    /\ outcome' = [outcome EXCEPT ![p] = OperationalError]
    /\ pc' = [pc EXCEPT ![p] = "idle"]
    /\ sanitized' = [sanitized EXCEPT ![p] = NoDict]
    /\ tries' = [tries EXCEPT ![p] = tries[p] + 1]
    /\ UNCHANGED <<inventory, db_lock, current, updated, request, last_set, ops>>
    /\ UNCHANGED beside_ledger

\* A failed transaction that is rolled back and begun again.
TxnFailRetry(p) ==
    /\ pc[p] \in {"read", "update"}
    /\ pc' = [pc EXCEPT ![p] = "begin"]
    /\ db_lock' = IF db_lock = p THEN NoProc ELSE db_lock
    /\ current' = [current EXCEPT ![p] = NoRows]
    /\ updated' = [updated EXCEPT ![p] = 0]
    /\ UNCHANGED <<inventory, sanitized, request, outcome, tries, last_set, ops>>
    /\ UNCHANGED beside_ledger

\* Lines 144-162 when a statement or the commit raises: lines 165-168 roll the
\* transaction back, which drops its UPDATEs and releases the lock.
TxnFail(p) ==
    /\ pc[p] \in {"read", "update"}
    /\ outcome' = [outcome EXCEPT ![p] = OperationalError]
    /\ pc' = [pc EXCEPT ![p] = "idle"]
    /\ db_lock' = IF db_lock = p THEN NoProc ELSE db_lock
    /\ sanitized' = [sanitized EXCEPT ![p] = NoDict]
    /\ current' = [current EXCEPT ![p] = NoRows]
    /\ updated' = [updated EXCEPT ![p] = 0]
    /\ UNCHANGED <<inventory, request, tries, last_set, ops>>
    /\ UNCHANGED beside_ledger

\* set_stock when the write lock stays taken: its UPDATE raises, nothing is written.
set_stock_locked(component, grams, update_capacity) ==
    /\ ops < MaxOps
    /\ ops' = ops + 1
    /\ component \in COMPONENT_KEYS
    /\ db_lock # NoProc
    /\ last_set' = [args |-> <<component, grams, update_capacity>>, result |-> "locked"]
    /\ UNCHANGED <<inventory, db_lock, pc, sanitized, current, updated, request,
                   outcome, tries>>
    /\ UNCHANGED beside_ledger

LedgerNext ==
    \/ \E p \in Proc, c \in Consumptions : Call(p, c)
    \/ \E p \in Proc : Begin(p)
    \/ \E p \in Proc : ReadValidate(p)
    \/ \E p \in Proc : UpdateRow(p)
    \/ \E p \in Proc : Commit(p)
    \/ \E a \in SetArgs : set_stock(a[1], a[2], a[3])

\* --------------------------------------- nutrient_engine.py: phase labels
\* A label is a sequence of one-character strings.
DigitChars == <<"0", "1", "2", "3", "4", "5", "6", "7", "8", "9">>
UpperChars == <<"A", "B", "C", "D", "E", "F", "G", "H", "I", "J", "K", "L", "M",
                "N", "O", "P", "Q", "R", "S", "T", "U", "V", "W", "X", "Y", "Z">>
LowerChars == <<"a", "b", "c", "d", "e", "f", "g", "h", "i", "j", "k", "l", "m",
                "n", "o", "p", "q", "r", "s", "t", "u", "v", "w", "x", "y", "z">>
IndexIn(seq, c) == CHOOSE i \in 1 .. Len(seq) : seq[i] = c
IsIn(seq, c) == \E i \in 1 .. Len(seq) : seq[i] = c
IsDigit(c) == IsIn(DigitChars, c)
IsSpace(c) == c \in {" ", "\t", "\n"}

\* str.lower()
LowerChar(c) == IF IsIn(UpperChars, c) THEN LowerChars[IndexIn(UpperChars, c)] ELSE c
Lower(s) == [i \in 1 .. Len(s) |-> LowerChar(s[i])]

\* str.strip()
RECURSIVE StripLeft(_)
StripLeft(s) == IF s # <<>> /\ IsSpace(Head(s)) THEN StripLeft(Tail(s)) ELSE s
RECURSIVE StripRight(_)
StripRight(s) ==
    IF s # <<>> /\ IsSpace(s[Len(s)]) THEN StripRight(SubSeq(s, 1, Len(s) - 1)) ELSE s
Strip(s) == StripRight(StripLeft(s))

\* sub in s
Contains(s, sub) ==
    \E i \in 1 .. (Len(s) - Len(sub) + 1) : SubSeq(s, i, i + Len(sub) - 1) = sub

\* int(digits) and str(n)
RECURSIVE DigitsToInt(_)
DigitsToInt(ds) ==
    IF ds = <<>> THEN 0
    ELSE 10 * DigitsToInt(SubSeq(ds, 1, Len(ds) - 1)) + (IndexIn(DigitChars, ds[Len(ds)]) - 1)
RECURSIVE IntToDigits(_)
IntToDigits(n) ==
    IF n < 10 THEN <<DigitChars[n + 1]>>
    ELSE Append(IntToDigits(n \div 10), DigitChars[(n % 10) + 1])

\* WEEK_REGEX = ^W(\d+)$, IGNORECASE
WeekMatch(s) ==
    /\ Len(s) >= 2
    /\ s[1] \in {"W", "w"}
    /\ \A i \in 2 .. Len(s) : IsDigit(s[i])
WeekNumber(s) == DigitsToInt(Tail(s))

EarlyVeg == <<"E", "a", "r", "l", "y", " ", "V", "e", "g">>
MidVeg == <<"M", "i", "d", " ", "V", "e", "g">>
LateVeg == <<"L", "a", "t", "e", " ", "V", "e", "g">>
Week(n) == <<"W">> \o IntToDigits(n)
VEG_PHASES == {EarlyVeg, MidVeg, LateVeg}
SHIELD_PHASES == {Week(1)}
\* The week from which a phase is ripening.
RipenWeek == 10

\* A canonicalization that mixes up the early and the late veg label.
NormalizeSwapsVeg(phase) ==
    LET raw == Strip(phase)
        lowered == Lower(raw)
    IN  IF raw = <<>> THEN [err |-> TRUE, phase |-> <<>>]
        ELSE IF WeekMatch(raw) THEN [err |-> FALSE, phase |-> Week(WeekNumber(raw))]
        ELSE IF Contains(lowered, <<"v", "e", "g">>)
                /\ Contains(lowered, <<"e", "a", "r", "l", "y">>)
             THEN [err |-> FALSE, phase |-> LateVeg]
        ELSE IF Contains(lowered, <<"v", "e", "g">>)
                /\ Contains(lowered, <<"m", "i", "d">>)
             THEN [err |-> FALSE, phase |-> MidVeg]
        ELSE IF Contains(lowered, <<"v", "e", "g">>)
                /\ Contains(lowered, <<"l", "a", "t", "e">>)
             THEN [err |-> FALSE, phase |-> EarlyVeg]
        ELSE [err |-> FALSE, phase |-> raw]

\* _normalize_phase: the canonical label, or ValueError for an empty one.
_normalize_phase(phase) ==
    LET raw == Strip(phase)
        lowered == Lower(raw)
    IN  IF raw = <<>> THEN [err |-> TRUE, phase |-> <<>>]
        ELSE IF WeekMatch(raw) THEN [err |-> FALSE, phase |-> Week(WeekNumber(raw))]
        ELSE IF Contains(lowered, <<"v", "e", "g">>)
                /\ Contains(lowered, <<"e", "a", "r", "l", "y">>)
             THEN [err |-> FALSE, phase |-> EarlyVeg]
        ELSE IF Contains(lowered, <<"v", "e", "g">>)
                /\ (\/ Contains(lowered, <<"m", "i", "d">>)
                    \/ Contains(lowered, <<"m", "i", "d", "d", "l", "e">>))
             THEN [err |-> FALSE, phase |-> MidVeg]
        ELSE IF Contains(lowered, <<"v", "e", "g">>)
                /\ Contains(lowered, <<"l", "a", "t", "e">>)
             THEN [err |-> FALSE, phase |-> LateVeg]
        ELSE [err |-> FALSE, phase |-> raw]

\* _resolve_stage
_resolve_stage(phase) ==
    IF phase \in VEG_PHASES THEN "veg"
    ELSE IF WeekMatch(phase)
         THEN (IF WeekNumber(phase) >= RipenWeek THEN "ripen" ELSE "flower")
         ELSE "veg"

\* ------------------------------------------ plan_routes.py: the coco plan
\* BASE_PLAN_TEMPLATES["coco"]["plan"]; doses in 0.01 g per litre.
PlanRow(phase, a, x, bz, tide, helix, ligand) ==
    [phase |-> phase, A |-> a, X |-> x, BZ |-> bz,
     Tide |-> tide, Helix |-> helix, Ligand |-> ligand]
CocoPlan ==
    << PlanRow(EarlyVeg, 80, 80, 0, 30, 2, 2),
       PlanRow(MidVeg, 100, 100, 0, 30, 2, 2),
       PlanRow(LateVeg, 120, 120, 0, 30, 2, 2),
       PlanRow(Week(1), 140, 100, 0, 30, 2, 2),
       PlanRow(Week(2), 140, 110, 0, 30, 2, 2),
       PlanRow(Week(3), 130, 130, 0, 30, 2, 2),
       PlanRow(Week(4), 120, 150, 0, 0, 2, 2),
       PlanRow(Week(5), 120, 160, 10, 0, 2, 2),
       PlanRow(Week(6), 110, 150, 30, 0, 2, 2),
       PlanRow(Week(7), 90, 130, 50, 0, 2, 2),
       PlanRow(Week(8), 70, 110, 80, 0, 2, 2),
       PlanRow(Week(9), 50, 80, 100, 0, 2, 2),
       PlanRow(Week(10), 0, 50, 130, 0, 0, 0) >>

\* _load_plan_entries: a dict keyed by phase; a later row replaces an earlier one.
PlanPhases(plan) == {plan[i].phase : i \in 1 .. Len(plan)}
PlanEntry(plan, phase) ==
    plan[CHOOSE i \in 1 .. Len(plan) :
            /\ plan[i].phase = phase
            /\ \A j \in 1 .. Len(plan) : plan[j].phase = phase => j <= i]

\* ------------------------------------- nutrient_engine.py: the calculator
\* Stock and mix amounts are integers in 0.01 g; litres are given in 0.01 l,
\* so a dose times the litres is in 0.0001 g.
\* _round2: Decimal(str(value)).quantize(0.01, ROUND_HALF_UP), from 0.001 g.
_round2(milli) ==
    IF milli >= 0 THEN (milli + 5) \div 10 ELSE 0 - ((5 - milli) \div 10)

MixKeys == {"part_a", "part_b", "part_c", "burst", "kelp", "amino", "fulvic", "shield"}
SHIELD_KEY == "shield"
\* SHIELD_DOSE_PER_PLANT = 4.0 g, in 0.01 g.
SHIELD_DOSE_PER_PLANT == 400

\* The inventory section of mapping.json: full_size and threshold_warn per key.
InventoryConfig ==
    [part_a |-> [full_size |-> 50000, threshold_warn |-> 20000],
     part_b |-> [full_size |-> 50000, threshold_warn |-> 10000],
     part_c |-> [full_size |-> 50000, threshold_warn |-> 10000],
     burst  |-> [full_size |-> 25000, threshold_warn |-> 5000],
     kelp   |-> [full_size |-> 10000, threshold_warn |-> 2000],
     amino  |-> [full_size |-> 5000, threshold_warn |-> 0],
     fulvic |-> [full_size |-> 5000, threshold_warn |-> 1000],
     shield |-> [full_size |-> 100000, threshold_warn |-> 20000]]
ConfigKeys == DOMAIN InventoryConfig

\* _sanitize_plant_count: int(value), 1 when that fails; floored at 0.
_sanitize_plant_count(value) == IF value.int THEN Max(0, value.n) ELSE 1

\* calc_solid_application
calc_solid_application(plant_count) ==
    _round2(SHIELD_DOSE_PER_PLANT * _sanitize_plant_count([int |-> TRUE, n |-> plant_count]) * 10)

ValueError == [err |-> TRUE, exc |-> "ValueError", mix |-> [k \in MixKeys |-> 0]]
\* decimal.InvalidOperation, raised by quantize for an infinite operand.
InvalidOperation ==
    [err |-> TRUE, exc |-> "InvalidOperation", mix |-> [k \in MixKeys |-> 0]]

\* liters is a float.  Its finite values are integers in 0.01 l; these two
\* codes stand for float("nan") and float("inf"), and NaN also for a NaN
\* amount of a mix.
NaN == 0 - 1000001
Infinity == 1000001

\* The product dose * liters is a binary64 product.  It is a half-cent tie
\* when its decimal value, in 0.0001 g, ends in 50; for these doses of the
\* coco plan (0.01 g/L) and litres (0.01 l, up to 0.50 l, and 10 l) the
\* binary product is below the tie: 1.3 * 0.35 is 0.45499999999999996.
ProductBelowTie(dose, liters) ==
    <<dose, liters>> \in {<<10, 35>>, <<70, 5>>, <<70, 35>>, <<130, 35>>,
                          <<150, 15>>, <<150, 35>>}

\* _round2(dose * liters): Decimal(str(value)).quantize(0.01, ROUND_HALF_UP)
\* of the binary64 product.
\* dose * nan and 0.0 * inf are NaN, and quantize leaves a NaN as it is; for
\* dose * inf with a dose above 0 see _calculate_liquid_mix.
RoundProduct(dose, liters) ==
    LET product == dose * liters
    IN  IF liters \in {NaN, Infinity} THEN NaN
        ELSE IF product % 100 = 50 /\ ProductBelowTie(dose, liters)
        THEN product \div 100
        ELSE (product + 50) \div 100

\* _calculate_liquid_mix: the liquid amounts for a canonical phase.
\* `liters <= 0` is False for a NaN; _round2 of an infinite product raises
\* InvalidOperation.
_calculate_liquid_mix(phase, liters) ==
    IF liters # NaN /\ liters <= 0 THEN ValueError
    ELSE IF phase \notin PlanPhases(CocoPlan) THEN ValueError
    ELSE LET entry == PlanEntry(CocoPlan, phase)
             stage == _resolve_stage(phase)
             part_a_per_l == IF stage = "ripen" THEN 0 ELSE entry.A
             part_b_per_l == IF stage = "veg" THEN entry.X ELSE 0
             part_c_per_l == IF stage = "veg" THEN 0 ELSE entry.X
             burst_per_l == IF stage = "veg" THEN 0 ELSE entry.BZ
             doses == {part_a_per_l, part_b_per_l, part_c_per_l, burst_per_l,
                       entry.Tide, entry.Helix, entry.Ligand}
         IN  IF liters = Infinity /\ \E dose \in doses : dose > 0
             THEN InvalidOperation
             ELSE
             [err |-> FALSE,
              mix |-> [part_a |-> RoundProduct(part_a_per_l, liters),
                       part_b |-> RoundProduct(part_b_per_l, liters),
                       part_c |-> RoundProduct(part_c_per_l, liters),
                       burst |-> RoundProduct(burst_per_l, liters),
                       kelp |-> RoundProduct(entry.Tide, liters),
                       amino |-> RoundProduct(entry.Helix, liters),
                       fulvic |-> RoundProduct(entry.Ligand, liters),
                       shield |-> 0]]

\* _calculate_mix: the liquid mix plus the top dress of the shield phases.
_calculate_mix(week_key, liters, plants) ==
    LET norm == _normalize_phase(week_key)
        liquid == _calculate_liquid_mix(norm.phase, liters)
    IN  IF norm.err THEN ValueError
        ELSE IF liquid.err THEN liquid
        ELSE [err |-> FALSE,
              mix |-> [liquid.mix EXCEPT ![SHIELD_KEY] =
                         IF norm.phase \in SHIELD_PHASES
                         THEN calc_solid_application(_sanitize_plant_count(plants))
                         ELSE 0]]

\* A split that leaves the shield in the tank mix.
TankMixKeepsShield(mix) == mix

\* _split_top_dress: the tank mix without the shield, and the top-dress list.
TankMix(mix) == [k \in (DOMAIN mix) \ {SHIELD_KEY} |-> mix[k]]
SHIELD_INSTRUCTION == "Nicht in den Tank mischen! Um den Stamm streuen."
TopDress(mix) ==
    IF Get(mix, SHIELD_KEY) > 0
    THEN <<[key |-> SHIELD_KEY, amount |-> mix[SHIELD_KEY],
            instruction |-> SHIELD_INSTRUCTION]>>
    ELSE <<>>

\* _normalize_state: every configured key, missing ones full, within [0, full_size].
_normalize_state(data) ==
    [key \in ConfigKeys |->
       LET full_size == InventoryConfig[key].full_size
           value == IF key \in DOMAIN data THEN data[key] ELSE full_size
       IN  IF value < 0 THEN 0
           ELSE IF full_size > 0 /\ value > full_size THEN full_size
           ELSE value]

\* A subtraction without the floor at 0.
ConsumeExact(state, mix_data) ==
    [key \in ConfigKeys |->
       LET used == IF Get(mix_data, key) < 0 THEN 0 ELSE Get(mix_data, key)
       IN  state[key] - used]

\* Lines 219-224 of _consume_mix: the loaded state less the mix, floored at 0.
\* A NaN amount is not below 0, and max(0.0, value - nan) is 0.0.
Consume(state, mix_data) ==
    [key \in ConfigKeys |->
       LET given == Get(mix_data, key)
           used == IF given # NaN /\ given < 0 THEN 0 ELSE given
       IN  IF used = NaN THEN 0 ELSE Max(0, state[key] - used)]

\* The (week_key, liters) arguments of mix_tank and preview_plan; liters in 0.01 l.
LooseMidVeg == <<" ", "m", "i", "d", " ", "V", "E", "G">>
MixArgs ==
    { <<Week(1), 1000>>,
      <<LooseMidVeg, 50>>,
      <<Week(10), 1000>>,
      <<Week(1), 0>>,
      <<Week(11), 1000>> }

\* Arguments with liters that are not finite.
NonFiniteArgs ==
    { <<Week(1), NaN>>,
      <<Week(1), Infinity>>,
      <<Week(10), Infinity>> }

\* The mix dicts passed to consume_mix.
MixDicts ==
    { [part_a |-> 99999900],
      [part_a |-> 600, kelp |-> 0 - 50, foo |-> 3],
      [part_a |-> 30000] }

NoCall == [op |-> "none", week_key |-> <<>>, liters |-> 0, mix_data |-> [none |-> 0]]
NoMix == [none |-> 0]
NoState == [none |-> 0]
NoResult == [kind |-> "none", mix |-> NoMix, top_dress |-> <<>>, inventory |-> NoState,
             deficits |-> {}]
\* ValueError of _normalize_phase and _calculate_liquid_mix.
Rejected == [kind |-> "ValueError", mix |-> NoMix, top_dress |-> <<>>,
             inventory |-> NoState, deficits |-> {}]
\* decimal.InvalidOperation of _round2.
Crashed == [kind |-> "InvalidOperation", mix |-> NoMix, top_dress |-> <<>>,
            inventory |-> NoState, deficits |-> {}]
\* The exception a failed mix calculation raises to the caller.
Raised(m) == IF m.exc = "ValueError" THEN Rejected ELSE Crashed
\* portalocker's LockException, OSError.
LockError == [kind |-> "storage", mix |-> NoMix, top_dress |-> <<>>,
              inventory |-> NoState, deficits |-> {}]

\* __init__: _ensure_state_file loads the state and writes it back normalized.
EngineInit(data, plants) ==
    /\ state_file = _normalize_state(data)
    /\ stock0 = state_file
    /\ plants_count = plants
    /\ epc = [p \in Proc |-> "idle"]
    /\ ecall = [p \in Proc |-> NoCall]
    /\ repeats = [p \in Proc |-> FALSE]
    /\ emix = [p \in Proc |-> NoMix]
    /\ loaded = [p \in Proc |-> NoState]
    /\ eout = [p \in Proc |-> NoResult]
    /\ etries = [p \in Proc |-> 0]
    /\ eops = 0

\* mix_tank, lines 61-63: compute the mix, then enter _consume_mix with it.
mix_tank(p, week_key, liters) ==
    /\ epc[p] = "idle"
    /\ eops < MaxEngineOps
    /\ eops' = eops + 1
    /\ ecall' = [ecall EXCEPT ![p] = [op |-> "mix_tank", week_key |-> week_key,
                                      liters |-> liters, mix_data |-> NoMix]]
    /\ repeats' = [repeats EXCEPT ![p] = (ecall'[p] = ecall[p])]
    /\ etries' = [etries EXCEPT ![p] = 0]
    /\ LET m == _calculate_mix(week_key, liters, plants_count)
       IN  IF m.err
           THEN /\ eout' = [eout EXCEPT ![p] = Raised(m)]
                /\ UNCHANGED <<epc, emix>>
           ELSE /\ eout' = [eout EXCEPT ![p] = NoResult]
                /\ epc' = [epc EXCEPT ![p] = "load"]
                /\ emix' = [emix EXCEPT ![p] = m.mix]
    /\ UNCHANGED <<state_file, stock0, plants_count, loaded>>
    /\ UNCHANGED beside_engine

\* consume_mix, consume_inventory: enter _consume_mix with the caller's dict.
consume_mix(p, mix_data) ==
    /\ epc[p] = "idle"
    /\ eops < MaxEngineOps
    /\ eops' = eops + 1
    /\ ecall' = [ecall EXCEPT ![p] = [op |-> "consume_mix", week_key |-> <<>>,
                                      liters |-> 0, mix_data |-> mix_data]]
    /\ repeats' = [repeats EXCEPT ![p] = (ecall'[p] = ecall[p])]
    /\ etries' = [etries EXCEPT ![p] = 0]
    /\ eout' = [eout EXCEPT ![p] = NoResult]
    /\ epc' = [epc EXCEPT ![p] = "load"]
    /\ emix' = [emix EXCEPT ![p] = mix_data]
    /\ UNCHANGED <<state_file, stock0, plants_count, loaded>>
    /\ UNCHANGED beside_engine

\* An inventory.json that json.load cannot parse.
CorruptFile == [corrupt |-> 0]

\* _load_state, lines 329-336: the parsed file; {} when json.load raises
\* JSONDecodeError (a warning is logged).
ReadFile(content) == IF content = CorruptFile THEN [k \in {} |-> 0] ELSE content

\* _consume_mix, line 218: _load_state reads the file under the lock and
\* releases the lock before it returns.
LoadState(p) ==
    /\ epc[p] = "load"
    /\ loaded' = [loaded EXCEPT ![p] = _normalize_state(ReadFile(state_file))]
    /\ epc' = [epc EXCEPT ![p] = "save"]
    /\ etries' = [etries EXCEPT ![p] = etries[p] + 1]
    /\ UNCHANGED <<state_file, stock0, plants_count, ecall, repeats, emix, eout, eops>>
    /\ UNCHANGED beside_engine

\* What mix_tank and consume_mix return once the state is written.
Result(op, mix, written) ==
    [kind |-> "ok",
     mix |-> IF op = "mix_tank" THEN TankMix(mix) ELSE NoMix,
     top_dress |-> IF op = "mix_tank" THEN TopDress(mix) ELSE <<>>,
     inventory |-> written,
     deficits |-> {}]

\* A confirm that deducts nothing when it repeats the caller's previous call.
SaveStateOnce(p) ==
    /\ epc[p] = "save"
    /\ state_file' = IF repeats[p] THEN state_file
                     ELSE Consume(loaded[p], emix[p])
    /\ eout' = [eout EXCEPT ![p] = Result(ecall[p].op, emix[p], state_file')]
    /\ epc' = [epc EXCEPT ![p] = "idle"]
    /\ loaded' = [loaded EXCEPT ![p] = NoState]
    /\ UNCHANGED <<stock0, plants_count, ecall, repeats, emix, etries, eops>>
    /\ UNCHANGED beside_engine

\* _consume_mix, lines 219-226: subtract the mix from the state that was loaded
\* and write the result under the lock (_save_state replaces the file).
SaveState(p) ==
    /\ epc[p] = "save"
    /\ state_file' = Consume(loaded[p], emix[p])
    /\ eout' = [eout EXCEPT ![p] = Result(ecall[p].op, emix[p], state_file')]
    /\ epc' = [epc EXCEPT ![p] = "idle"]
    /\ loaded' = [loaded EXCEPT ![p] = NoState]
    /\ UNCHANGED <<stock0, plants_count, ecall, repeats, emix, etries, eops>>
    /\ UNCHANGED beside_engine

\* A preview that also books the mix it computed.
PreviewConsumes(p, week_key, liters) ==
    /\ epc[p] = "idle"
    /\ eops < MaxEngineOps
    /\ eops' = eops + 1
    /\ ecall' = [ecall EXCEPT ![p] = [op |-> "preview_plan", week_key |-> week_key,
                                      liters |-> liters, mix_data |-> NoMix]]
    /\ repeats' = [repeats EXCEPT ![p] = (ecall'[p] = ecall[p])]
    /\ LET m == _calculate_mix(week_key, liters, plants_count)
       IN  /\ eout' = [eout EXCEPT ![p] =
                         IF m.err THEN Raised(m)
                         ELSE [kind |-> "ok", mix |-> TankMix(m.mix),
                               top_dress |-> TopDress(m.mix), inventory |-> NoState,
                               deficits |-> {}]]
           /\ state_file' = IF m.err THEN state_file ELSE Consume(state_file, m.mix)
    /\ UNCHANGED <<stock0, plants_count, epc, emix, loaded, etries>>
    /\ UNCHANGED beside_engine

\* preview_plan, lines 71-74.
preview_plan(p, week_key, liters) ==
    /\ epc[p] = "idle"
    /\ eops < MaxEngineOps
    /\ eops' = eops + 1
    /\ ecall' = [ecall EXCEPT ![p] = [op |-> "preview_plan", week_key |-> week_key,
                                      liters |-> liters, mix_data |-> NoMix]]
    /\ repeats' = [repeats EXCEPT ![p] = (ecall'[p] = ecall[p])]
    /\ LET m == _calculate_mix(week_key, liters, plants_count)
       IN  eout' = [eout EXCEPT ![p] =
                      IF m.err THEN Raised(m)
                      ELSE [kind |-> "ok", mix |-> TankMix(m.mix),
                            top_dress |-> TopDress(m.mix), inventory |-> NoState,
                            deficits |-> {}]]
    /\ UNCHANGED <<state_file, stock0, plants_count, epc, emix, loaded, etries>>
    /\ UNCHANGED beside_engine

\* A failure after which _consume_mix starts over instead of raising.
StateFailRetry(p) ==
    /\ epc[p] \in {"load", "save"}
    /\ epc' = [epc EXCEPT ![p] = "load"]
    /\ loaded' = [loaded EXCEPT ![p] = NoState]
    /\ etries' = [etries EXCEPT ![p] = IF epc[p] = "load" THEN etries[p] + 1 ELSE etries[p]]
    /\ UNCHANGED <<state_file, stock0, plants_count, ecall, repeats, emix, eout, eops>>
    /\ UNCHANGED beside_engine

\* _load_state or _save_state cannot take the lock within LOCK_TIMEOUT, or the
\* file cannot be read or written: the exception leaves _consume_mix.
StateFail(p) ==
    /\ epc[p] \in {"load", "save"}
    /\ eout' = [eout EXCEPT ![p] = LockError]
    /\ epc' = [epc EXCEPT ![p] = "idle"]
    /\ loaded' = [loaded EXCEPT ![p] = NoState]
    /\ etries' = [etries EXCEPT ![p] = IF epc[p] = "load" THEN etries[p] + 1 ELSE etries[p]]
    /\ UNCHANGED <<state_file, stock0, plants_count, ecall, repeats, emix, eops>>
    /\ UNCHANGED beside_engine

EngineNext ==
    \/ \E p \in Proc, a \in MixArgs : mix_tank(p, a[1], a[2])
    \/ \E p \in Proc, m \in MixDicts : consume_mix(p, m)
    \/ \E p \in Proc : LoadState(p)
    \/ \E p \in Proc : SaveState(p)
    \/ \E p \in Proc, a \in MixArgs : preview_plan(p, a[1], a[2])

\* mix_tank and preview_plan called with liters that are not finite.
EngineNonFinite ==
    \/ \E p \in Proc, a \in NonFiniteArgs : mix_tank(p, a[1], a[2])
    \/ \E p \in Proc, a \in NonFiniteArgs : preview_plan(p, a[1], a[2])

EngineFault == \E p \in Proc : StateFail(p)

\* inventory.json is damaged from outside the program (a torn or hand-edited file).
FileDamage ==
    /\ state_file # CorruptFile
    /\ state_file' = CorruptFile
    /\ UNCHANGED <<stock0, plants_count, epc, ecall, repeats, emix, loaded, eout, etries, eops>>
    /\ UNCHANGED beside_engine

LedgerFault ==
    \/ \E p \in Proc : BeginTimeout(p)
    \/ \E p \in Proc : TxnFail(p)
    \/ \E a \in SetArgs : set_stock_locked(a[1], a[2], a[3])

\* ------------------------------------------------- pure functions, applied
\* Litres (in 0.01 l) offered to the mix calculation: steps of 0.05 l, besides
\* the 10 l of the specification's example.
MaxLiters == 8
LiterValues == {5 * k : k \in 0 .. MaxLiters} \cup {1000}

NoCalc == [fn |-> "none", arg |-> <<>>, out |-> <<>>]
CalcInit == calc = NoCalc

\* calc_liquid_mix, lines 51-54 (week_key given): the liquid mix of a phase.
calc_liquid_mix(liters, week_key) ==
    /\ calc = NoCalc
    /\ LET norm == _normalize_phase(week_key)
           liquid == _calculate_liquid_mix(norm.phase, liters)
       IN  calc' = [fn |-> "calc_liquid_mix",
                    arg |-> <<liters, week_key>>,
                    out |-> IF norm.err \/ liquid.err
                            THEN [err |-> TRUE, mix |-> NoMix]
                            ELSE [err |-> FALSE, mix |-> TankMix(liquid.mix)]]
    /\ UNCHANGED beside_calc

\* ---------------------------------- nutrient_engine.py: check_refill_needed
SHOP_URL == "https://growmind.ai/shop"
\* _reorder_url: SHOP_URL, which ends with no slash, then "/" and the key.
_reorder_url(key) == SHOP_URL \o "/" \o key
\* A variant of _build_alerts that also alerts at the threshold itself.
AlertsAtThreshold(state) ==
    { [key |-> key, current |-> state[key],
       threshold_warn |-> InventoryConfig[key].threshold_warn,
       reorder_url |-> _reorder_url(key)] :
      key \in {k \in ConfigKeys : state[k] <= InventoryConfig[k].threshold_warn} }
\* _build_alerts: one alert per configured key whose threshold is positive and
\* whose amount is below it (the list is in the order of mapping.json; the
\* amounts of a state are whole hundredths, which _round2 leaves as they are).
_build_alerts(state) ==
    { [key |-> key, current |-> state[key],
       threshold_warn |-> InventoryConfig[key].threshold_warn,
       reorder_url |-> _reorder_url(key)] :
      key \in {k \in ConfigKeys : /\ InventoryConfig[k].threshold_warn > 0
                                  /\ state[k] < InventoryConfig[k].threshold_warn} }
\* check_refill_needed, check_inventory_status, get_shopping_list: _load_state
\* reads the file under the lock, _build_alerts works on what was read.
check_refill_needed ==
    /\ calc' = [fn |-> "check_refill_needed", arg |-> state_file,
                out |-> _build_alerts(_normalize_state(ReadFile(state_file)))]
    /\ UNCHANGED beside_calc

\* ------------------------------------ nutrient_service.py: calculate_dose
\* get_week_number: FLOWERING_WEEK_REGEX = ^W(\d+)$, IGNORECASE; -1 is None.
get_week_number(phase) == IF WeekMatch(phase) THEN WeekNumber(phase) ELSE 0 - 1

get_stage_class(phase) ==
    LET normalized == Strip(phase)
        week_number == get_week_number(normalized)
    IN  \* the German veg labels of the code's set have no week number either
        IF Lower(normalized) \in {Lower(EarlyVeg), Lower(MidVeg), Lower(LateVeg)}
        THEN "VEG"
        ELSE IF week_number = 0 - 1 THEN "VEG"
        ELSE IF week_number = 1 THEN "B1"
        ELSE IF week_number <= 3 THEN "P23"
        ELSE IF week_number <= 7 THEN "P47"
        ELSE IF week_number = 8 THEN "W8"
        ELSE "RIPEN"

\* DoserInput: the phase and the observation fields of Trend, YesNo and
\* PHDrift, for a phase of the plan and for one the plan does not hold.
DoserInputs ==
    [phase : {MidVeg, Week(2), Week(4), Week(5), Week(7), Week(10), Week(11)},
     trend : {"neutral", "higher", "lower"},
     tipburn : {"yes", "no"},
     pale : {"yes", "no"},
     caMgDeficiency : {"yes", "no"},
     claw : {"yes", "no"},
     phDrift : {"normal", "high", "low"}]

\* Plan entries offered to calculate_dose, doses in 0.01 g/L: rows of the
\* built-in coco plan (lines 115, 121, 126), of the built-in soil plan
\* (lines 143, 146) and one row of a custom plan with small doses.
DoseEntries ==
    { PlanRow(MidVeg, 100, 100, 0, 30, 2, 2),
      PlanRow(Week(5), 120, 160, 10, 0, 2, 2),
      PlanRow(Week(10), 0, 50, 130, 0, 0, 0),
      PlanRow(Week(4), 132, 46, 21, 0, 2, 2),
      PlanRow(Week(7), 102, 58, 9, 0, 2, 2),
      PlanRow(Week(2), 5, 3, 2, 0, 0, 0) }

\* The deltas d_a, d_x, d_b are binary64 sums.  Their decimal value is kept
\* in 0.001 g/L.  Every delta but the booster's 0.03 * 1.5 is a multiple of
\* 0.01, so base + d is at a half-cent tie only for BZ under tipburn with a
\* rising EC; there the binary sum BZ + d_b is below the decimal tie for the
\* bases (0.01 g/L, up to 1.30) listed here, by the pH drift branch taken:
\* 0.21 + (0 - 0.045) is 0.16499999999999998 in binary64.
BelowTie(bz, phDrift) ==
    IF phDrift = "low"
    THEN bz \in {9, 12, 15, 18, 29, 47} \cup (57 .. 62) \cup (82 .. 87)
    ELSE bz \in {21} \cup (57 .. 60) \cup (69 .. 73) \cup (82 .. 85) \cup (94 .. 98)

\* r2 (lines 375-377): Decimal(str(value)).quantize(0.01, ROUND_HALF_UP) of a
\* binary64 value whose decimal value is `milli`; `below` tells that the
\* binary value lies under a half-cent tie.
r2(milli, below) ==
    IF below /\ milli % 10 = 5 THEN _round2(milli - 1) ELSE _round2(milli)

\* max(0.0, r2(base + d)) after all deltas (lines 479-481).
FloorOnce(base, deltas, below) ==
    LET Sum[i \in 0 .. Len(deltas)] == IF i = 0 THEN 0 ELSE Sum[i - 1] + deltas[i]
    IN  Max(0, r2(10 * base + Sum[Len(deltas)], below))

\* The heuristic rules of calculate_dose (lines 434-477) in the order of the
\* code, each as the amounts it adds to d_a, d_x and d_b (0.001 g/L).
DoseDeltas(inputs, base_entry) ==
    LET stage == get_stage_class(inputs.phase)
        is_higher_ec == inputs.trend = "higher"
        is_lower_ec == inputs.trend = "lower"
        none == [a |-> 0, x |-> 0, b |-> 0]
        factor15 == IF is_higher_ec THEN 15 ELSE 10
        claw == IF inputs.claw = "yes"
                THEN [a |-> 0 - 80, x |-> IF stage = "VEG" THEN 0 - 50 ELSE 0, b |-> 0]
                ELSE none
        pale == IF inputs.pale = "yes" /\ ~is_higher_ec /\ stage # "RIPEN"
                THEN [a |-> 100, x |-> 0, b |-> 0]
                ELSE none
        camg == IF inputs.caMgDeficiency = "yes"
                THEN [a |-> IF ~is_higher_ec /\ inputs.claw = "no" THEN 50 ELSE 0,
                      x |-> 50, b |-> 0]
                ELSE none
        tipburn ==
            IF inputs.tipburn = "yes"
            THEN [a |-> 0 - 4 * factor15, x |-> 0 - 4 * factor15,
                  b |-> IF base_entry.BZ > 0 THEN 0 - 3 * factor15 ELSE 0]
            ELSE IF is_lower_ec /\ stage # "RIPEN" /\ inputs.claw = "no"
            THEN [a |-> 0,
                  x |-> IF stage = "P47" THEN 20 ELSE 0,
                  b |-> IF base_entry.BZ > 0 /\ stage \in {"P23", "P47"} THEN 20 ELSE 0]
            ELSE none
        drift_high == IF inputs.phDrift = "high"
                      THEN [a |-> 0 - 50, x |-> 30,
                            b |-> IF base_entry.BZ > 0 THEN 20 ELSE 0]
                      ELSE none
        drift_high_ec == IF inputs.phDrift = "high" /\ is_higher_ec
                         THEN [a |-> 0, x |-> 0, b |-> 0 - 20]
                         ELSE none
        drift_low == IF inputs.phDrift = "low"
                     THEN [a |-> 50, x |-> 0 - 30,
                           b |-> IF base_entry.BZ > 0 THEN 0 - 20 ELSE 0]
                     ELSE none
    IN  <<claw, pale, camg, tipburn, drift_high, drift_high_ec, drift_low>>

\* adjustedValues A, X, BZ of calculate_dose (lines 479-481), in 0.01 g/L.
AdjustedValues(inputs, base_entry) ==
    LET ds == DoseDeltas(inputs, base_entry)
        d_a == [i \in 1 .. Len(ds) |-> ds[i].a]
        d_x == [i \in 1 .. Len(ds) |-> ds[i].x]
        d_b == [i \in 1 .. Len(ds) |-> ds[i].b]
        tie == /\ inputs.tipburn = "yes"
               /\ inputs.trend = "higher"
               /\ BelowTie(base_entry.BZ, inputs.phDrift)
    IN  [A |-> FloorOnce(base_entry.A, d_a, FALSE),
         X |-> FloorOnce(base_entry.X, d_x, FALSE),
         BZ |-> IF base_entry.BZ > 0 THEN FloorOnce(base_entry.BZ, d_b, tie) ELSE 0]

\* calculate_dose (lines 415-632) on a one-entry plan: None for a phase the
\* plan does not hold, else the stage class and the adjusted values.
calculate_dose(inputs, entry) ==
    /\ calc = NoCalc
    /\ calc' = [fn |-> "calculate_dose",
                arg |-> <<inputs, entry>>,
                out |-> IF entry.phase # inputs.phase
                        THEN [none |-> TRUE]
                        ELSE [none |-> FALSE,
                              stageClass |-> get_stage_class(inputs.phase),
                              adjustedValues |-> AdjustedValues(inputs, entry)]]
    /\ UNCHANGED beside_calc

\* Phase labels given to _normalize_phase: week labels with leading zeros,
\* lower case and blanks around them, veg labels in several spellings, labels
\* that are neither, and empty ones.
PhaseLabels ==
    { <<>>,
      <<" ", " ">>,
      <<"W", "1">>,
      <<"w", "7">>,
      <<" ", "W", "0", "3", " ">>,
      <<"W", "1", "0">>,
      <<"w", "0", "0", "1", "2">>,
      <<"W">>,
      <<"W", "1", "a">>,
      <<"W", " ", "2">>,
      EarlyVeg,
      MidVeg,
      LateVeg,
      LooseMidVeg,
      <<"l", "a", "t", "e", " ", "v", "e", "g", "\n">>,
      <<"V", "E", "G", " ", "e", "a", "r", "l", "y">>,
      <<"m", "i", "d", "d", "l", "e", " ", "V", "e", "g">>,
      <<"e", "a", "r", "l", "y", " ", "l", "a", "t", "e", " ", "v", "e", "g">>,
      <<"V", "e", "g">>,
      <<" ", "V", "e", "g", "e", "t", "a", "t", "i", "v", "e">>,
      <<"E", "a", "r", "l", "y">>,
      <<"F", "l", "u", "s", "h", " ">>,
      <<"\t", "f", "l", "o", "w", "e", "r", " ", "W", "2">> }

\* _normalize_phase applied to a label, and again to its own result.
NormalizeTwice(label) ==
    /\ calc = NoCalc
    /\ LET once == _normalize_phase(label)
       IN  calc' = [fn |-> "_normalize_phase",
                    arg |-> <<label>>,
                    out |-> [once |-> once,
                             twice |-> IF once.err THEN once
                                       ELSE _normalize_phase(once.phase)]]
    /\ UNCHANGED beside_calc

\* The caller takes the result; the next call starts from scratch.
CalcReturn ==
    /\ calc # NoCalc
    /\ calc' = NoCalc
    /\ UNCHANGED beside_calc

CalcNext ==
    \/ CalcReturn
    \/ /\ calc = NoCalc
       /\ \E l \in LiterValues, ph \in PlanPhases(CocoPlan) \cup {Week(11)} :
             calc_liquid_mix(l, ph)
    \/ /\ calc = NoCalc
       /\ \E e \in DoseEntries, inputs \in DoserInputs :
             /\ inputs.phase \in {e.phase, Week(11)}
             /\ calculate_dose(inputs, e)
    \/ /\ calc = NoCalc
       /\ \E label \in PhaseLabels : NormalizeTwice(label)

\* --------------------------------- nutrient_service.py: recipe normalization
\* Grams of a raw recipe are in 0.1 g, a scale factor in hundredths.  A returned
\* amount is a fraction <<n, d>> of a gram in lowest terms; <<1, 0>> is inf and
\* <<0, 0>> is nan.  Two scale factors stand for the ends of the float range:
\* HugeScale for 1e307, where a product of 18 g or more is inf, and TinyScale
\* for 1e-320, where every sum of amounts is so small that target / total is inf.
TARGET_MIX_TOTAL == 1000
HugeScale == 1000000
TinyScale == 0
FracInf == <<1, 0>>
FracNaN == <<0, 0>>
RECURSIVE GCD(_, _)
GCD(a, b) == IF b = 0 THEN a ELSE GCD(b, a % b)
Frac(n, d) == <<n \div GCD(n, d), d \div GCD(n, d)>>
\* The sum of two returned amounts, as floats add: nan with nan, inf with inf.
FracAdd(x, y) ==
    IF x = FracNaN \/ y = FracNaN THEN FracNaN
    ELSE IF x = FracInf \/ y = FracInf THEN FracInf
    ELSE Frac(x[1] * y[2] + y[1] * x[2], x[2] * y[2])
RECURSIVE FracSum(_)
FracSum(amounts) ==
    IF DOMAIN amounts = {} THEN <<0, 1>>
    ELSE LET salt == CHOOSE s \in DOMAIN amounts : TRUE
         IN  FracAdd(amounts[salt],
                     FracSum([s \in DOMAIN amounts \ {salt} |-> amounts[s]]))
RECURSIVE Total(_)
Total(amounts) ==
    IF DOMAIN amounts = {} THEN 0
    ELSE LET salt == CHOOSE s \in DOMAIN amounts : TRUE
         IN  amounts[salt] + Total([s \in DOMAIN amounts \ {salt} |-> amounts[s]])
\* grams * scale is inf: at 1e307, from 18 g on (the largest float is 1.797e308).
Overflows(grams, scale) == scale = HugeScale /\ grams >= 180
\* float(grams) * scale of a finite product, in 0.001 g (in 1e306 g at HugeScale,
\* in 1e-321 g at TinyScale).
Scaled(grams, scale) == IF scale \in {HugeScale, TinyScale} THEN grams ELSE grams * scale
\* The last two lines of both functions: amount * (target / total).  At
\* TinyScale target / total is inf, and 0.0 * inf is nan; a total that is inf
\* makes target / total 0.0, and inf * 0.0 is nan.
Rescaled(amounts, scale, total_inf) ==
    [s \in DOMAIN amounts |->
        IF total_inf THEN (IF amounts[s] = Infinity THEN FracNaN ELSE <<0, 1>>)
        ELSE IF scale = TinyScale THEN (IF amounts[s] > 0 THEN FracInf ELSE FracNaN)
        ELSE Frac(amounts[s] * TARGET_MIX_TOTAL, Total(amounts))]
\* A variant of _normalize_recipe that leaves negative amounts in the total.
NormalizeKeepsNegative(raw, scale) ==
    LET normalized == [s \in DOMAIN raw |-> Scaled(raw[s], scale)]
    IN  IF Total(normalized) <= 0 THEN [s \in DOMAIN raw |-> <<0, 1>>]
        ELSE [s \in DOMAIN raw |->
                 IF normalized[s] < 0 THEN <<0, 1>>
                 ELSE Frac(normalized[s] * TARGET_MIX_TOTAL, Total(normalized))]
\* _normalize_recipe: amounts that are not finite or not positive count as 0.
_normalize_recipe(raw, scale) ==
    LET normalized == [s \in DOMAIN raw |->
                          IF ~Overflows(raw[s], scale) /\ Scaled(raw[s], scale) > 0
                          THEN Scaled(raw[s], scale) ELSE 0]
        total == Total(normalized)
    IN  IF total <= 0 THEN [s \in DOMAIN raw |-> <<0, 1>>]
        ELSE Rescaled(normalized, scale, Overflows(total, scale))
\* _normalize_recipe_weights of the PhotonFlux backend: max(0.0, amount) keeps
\* an amount that is inf.
_normalize_recipe_weights(recipe, scale) ==
    LET scaled == [s \in DOMAIN recipe |->
                      IF Overflows(recipe[s], scale) THEN Infinity
                      ELSE Max(0, Scaled(recipe[s], scale))]
        any_inf == \E s \in DOMAIN recipe : scaled[s] = Infinity
        total == Total([s \in DOMAIN recipe |-> IF scaled[s] = Infinity THEN 0 ELSE scaled[s]])
    IN  IF ~any_inf /\ total <= 0 THEN [s \in DOMAIN recipe |-> <<0, 1>>]
        ELSE Rescaled(scaled, scale, any_inf \/ Overflows(total, scale))
\* The raw recipes and the scale factors the functions are applied to.
RawRecipes ==
    { [MgSO4 |-> 241, K2SO4 |-> 232, KNO3 |-> 5, MKP |-> 127],
      [MgSO4 |-> 90, KNO3 |-> 0, MKP |-> 180],
      [MgSO4 |-> 50, KNO3 |-> 0 - 20, MKP |-> 150],
      [MgSO4 |-> 0, KNO3 |-> 0 - 20],
      [MgSO4 |-> 0, KNO3 |-> 0],
      [MgSO4 |-> 100, KNO3 |-> 60] }
Scales == {50, 100, 106, 173, HugeScale, TinyScale}
\* Both functions applied to a recipe, each under two scale factors.
NormalizeRecipe(raw, scale_a, scale_b) ==
    /\ calc = NoCalc
    /\ calc' = [fn |-> "_normalize_recipe", arg |-> <<raw, scale_a, scale_b>>,
                out |-> <<_normalize_recipe(raw, scale_a), _normalize_recipe(raw, scale_b)>>]
    /\ UNCHANGED beside_calc
NormalizeRecipeWeights(raw, scale_a, scale_b) ==
    /\ calc = NoCalc
    /\ calc' = [fn |-> "_normalize_recipe_weights", arg |-> <<raw, scale_a, scale_b>>,
                out |-> <<_normalize_recipe_weights(raw, scale_a),
                          _normalize_recipe_weights(raw, scale_b)>>]
    /\ UNCHANGED beside_calc
RecipeNext ==
    \/ CalcReturn
    \/ \E raw \in RawRecipes, scale_a, scale_b \in Scales : NormalizeRecipe(raw, scale_a, scale_b)
    \/ \E raw \in RawRecipes, scale_a, scale_b \in Scales :
          NormalizeRecipeWeights(raw, scale_a, scale_b)

\* ------------------------------------------------------------ plan repository
\* app/plan_routes.py.  A plan is modelled by the fields its rules read: id,
\* isDefault, osmosisShare (in percent) and, per entry, phase, durationDays,
\* Silicate and SilicateUnit; name, description, water profile, doses and notes
\* are carried through by the code and are left out.  An optional value is <<>>
\* (None, or a key that is absent) or <<v>>; the unit None is the string "None";
\* a payload without id has id "".  amnesia_haze is treated by every line as
\* blue_dream is, rockwool as soil is.
None == <<>>
Some(v) == <<v>>
\* bool(value) of an optional number.
Truthy(value) == value # None /\ value[1] # 0
IsFinite(v) == v \notin {NaN, Infinity}

EDITABLE_DEFAULT_CULTIVARS == {"blue_dream", "amnesia_haze"}
DEFAULT_OSMOSIS_SHARES == [rockwool |-> 30, coco |-> 40, soil |-> 20]
Combos == { <<"wedding_cake", "coco">>, <<"blue_dream", "soil">> }
Cultivar(c) == c[1]
Substrate(c) == c[2]

\* An entry of a built-in template.
TemplateEntry(phase, days, silicate, unit) ==
    [phase |-> phase, durationDays |-> days, Silicate |-> silicate, SilicateUnit |-> unit]
TemplateDays ==
    [coco |-> <<4, 5, 6, 9, 9, 9, 5, 5, 5, 7, 7, 10, 10>>,
     soil |-> <<7, 7, 7, 7, 7, 7, 7, 7, 7, 7, 7, 7, 7>>]
TemplatePhases ==
    <<EarlyVeg, MidVeg, LateVeg>> \o [n \in 1 .. 10 |-> Week(n)]
\* BASE_PLAN_TEMPLATES[substrate]: Mid Veg alone carries silicate, 4 per plant.
BASE_PLAN_TEMPLATES(substrate) ==
    [id |-> "default",
     isDefault |-> TRUE,
     osmosisShare |-> DEFAULT_OSMOSIS_SHARES[substrate],
     plan |-> [i \in 1 .. Len(TemplatePhases) |->
                 IF TemplatePhases[i] = MidVeg
                 THEN TemplateEntry(MidVeg, TemplateDays[substrate][i], Some(4), "per_plant")
                 ELSE TemplateEntry(TemplatePhases[i], TemplateDays[substrate][i], None, "None")]]
\* DEFAULT_PLAN[cultivar][substrate]: _create_cultivar_plan clones the base
\* template; a cultivar's multipliers scale doses only.
DEFAULT_PLAN(c) == BASE_PLAN_TEMPLATES(Substrate(c))

\* The plans the routes are called with (ManagedPlanPayload).
EntryPayload(phase, days, silicate, unit) ==
    [phase |-> phase, durationDays |-> days, Silicate |-> silicate, SilicateUnit |-> unit]
PlanPayloads ==
    { [id |-> "", isDefault |-> FALSE, osmosisShare |-> None,
       plan |-> << EntryPayload(Week(1), None, None, "None") >>],
      [id |-> "default", isDefault |-> TRUE, osmosisShare |-> Some(170),
       plan |-> << EntryPayload(MidVeg, Some(0), Some(4), "None") >>],
      [id |-> "p1", isDefault |-> FALSE, osmosisShare |-> Some(0 - 50),
       plan |-> << EntryPayload(Week(1), Some(0 - 3), Some(0), "per_plant"),
                   EntryPayload(Week(2), Some(5), None, "None"),
                   EntryPayload(Week(1), Some(6), None, "None") >>],
      [id |-> "default", isDefault |-> FALSE, osmosisShare |-> Some(NaN),
       plan |-> << EntryPayload(Week(1), Some(9), Some(2), "per_liter") >>] }
\* The plan ids delete_plan and set_active_plan are called with.
PlanIds == {"default", "p1", "uuid-1", "p9"}

\* _sanitize_duration: 7 for None, else at least 1.
_sanitize_duration(value) == IF value = None THEN 7 ELSE Max(1, value[1])
\* _sanitize_float: None for None and for a value that is not finite.
_sanitize_float(value) ==
    IF value = None THEN None
    ELSE IF ~IsFinite(value[1]) THEN None
    ELSE value
\* A variant of _normalize_entry that keeps the unit of the payload.
EntryKeepsUnit(entry) ==
    [phase |-> entry.phase,
     Silicate |-> _sanitize_float(entry.Silicate),
     SilicateUnit |-> entry.SilicateUnit,
     durationDays |-> _sanitize_duration(entry.durationDays)]

\* _normalize_entry, the fields modelled.
_normalize_entry(entry) ==
    [phase |-> entry.phase,
     Silicate |-> _sanitize_float(entry.Silicate),
     SilicateUnit |-> IF entry.SilicateUnit \in {"per_liter", "per_plant"}
                      THEN entry.SilicateUnit
                      ELSE IF Truthy(entry.Silicate) THEN "per_liter" ELSE "None",
     durationDays |-> _sanitize_duration(entry.durationDays)]
\* _clamp_share: the substrate's default share for None and for a value that
\* is not finite, then clamped to [0, 1].
_clamp_share(value, substrate) ==
    LET numeric == IF value = None \/ ~IsFinite(value[1])
                   THEN DEFAULT_OSMOSIS_SHARES[substrate]
                   ELSE value[1]
    IN  Max(0, Min(100, numeric))
\* _generate_plan_id: a uuid no plan carries yet.
_generate_plan_id == "uuid-" \o ToString(uuids + 1)
\* _normalize_plan; enforce_id "" stands for None.
_normalize_plan(plan_payload, substrate, enforce_id) ==
    [id |-> IF enforce_id # "" THEN enforce_id
            ELSE IF plan_payload.id # "" THEN plan_payload.id
            ELSE _generate_plan_id,
     plan |-> [i \in 1 .. Len(plan_payload.plan) |-> _normalize_entry(plan_payload.plan[i])],
     osmosisShare |-> _clamp_share(plan_payload.osmosisShare, substrate),
     isDefault |-> plan_payload.isDefault]
\* ManagedPlanPayload(**plan): a stored plan read back as a payload.
ManagedPlanPayload(plan) ==
    [id |-> plan.id,
     isDefault |-> plan.isDefault,
     osmosisShare |-> Some(plan.osmosisShare),
     plan |-> [i \in 1 .. Len(plan.plan) |->
                 [plan.plan[i] EXCEPT !.durationDays = Some(plan.plan[i].durationDays)]]]

\* dict.get(key) of the three keys of the store.
StoredPlans(c) == IF c \in DOMAIN custom_plans THEN custom_plans[c] ELSE <<>>
\* d[key] = value
Put(d, key, value) == [k \in DOMAIN d \cup {key} |-> IF k = key THEN value ELSE d[k]]
\* del d[key]
Del(d, key) == [k \in DOMAIN d \ {key} |-> d[k]]

\* _clone_plan_template(template, overrides), overrides not empty.
_clone_plan_template(template, overrides) ==
    [id |-> IF "id" \in DOMAIN overrides THEN overrides.id ELSE template.id,
     isDefault |-> IF "isDefault" \in DOMAIN overrides THEN overrides.isDefault
                   ELSE template.isDefault,
     osmosisShare |-> IF "osmosisShare" \in DOMAIN overrides THEN overrides.osmosisShare
                      ELSE template.osmosisShare,
     plan |-> IF "plan" \in DOMAIN overrides THEN overrides.plan ELSE template.plan]
\* A variant of _get_default_plan that applies a stored override for every cultivar.
DefaultPlanOfAnyCultivar(c) ==
    IF c \in DOMAIN default_overrides
    THEN _clone_plan_template(DEFAULT_PLAN(c), default_overrides[c])
    ELSE DEFAULT_PLAN(c)
\* _get_default_plan: the template, merged with the stored override of an
\* editable cultivar.
_get_default_plan(c) ==
    IF Cultivar(c) \in EDITABLE_DEFAULT_CULTIVARS /\ c \in DOMAIN default_overrides
    THEN _clone_plan_template(DEFAULT_PLAN(c), default_overrides[c])
    ELSE DEFAULT_PLAN(c)
\* _list_custom_plans: the stored plans, normalized again under their own ids.
_list_custom_plans(c) ==
    [i \in 1 .. Len(StoredPlans(c)) |->
        _normalize_plan(ManagedPlanPayload(StoredPlans(c)[i]), Substrate(c),
                        StoredPlans(c)[i].id)]
\* _get_available_plans
_get_available_plans(c) == <<_get_default_plan(c)>> \o _list_custom_plans(c)
\* _get_active_plan_id
_get_active_plan_id(c) == IF c \in DOMAIN active_ids THEN active_ids[c] ELSE "default"

\* _save_custom_plan: the new value of customPlans; the plan replaces the
\* first stored plan of its id, or is appended.
_save_custom_plan(c, plan) ==
    LET stored == StoredPlans(c)
        hits == {i \in 1 .. Len(stored) : stored[i].id = plan.id}
        idx == IF hits = {} THEN 0 ELSE CHOOSE i \in hits : \A j \in hits : i <= j
    IN  Put(custom_plans, c,
            IF idx > 0 THEN [stored EXCEPT ![idx] = plan] ELSE Append(stored, plan))
\* The stored plans of the combo without those of the id.
Filtered(c, plan_id) == SelectSeq(StoredPlans(c), LAMBDA plan : plan.id # plan_id)
\* A variant of _delete_custom_plan that leaves the active id alone.
DeleteKeepsPointer(c, plan_id) ==
    /\ custom_plans' = Put(custom_plans, c, Filtered(c, plan_id))
    /\ active_ids' = active_ids
\* _delete_custom_plan when a plan of the id is stored: it is removed, and an
\* active id equal to it becomes "default".
_delete_custom_plan(c, plan_id) ==
    /\ custom_plans' = Put(custom_plans, c, Filtered(c, plan_id))
    /\ active_ids' = IF c \in DOMAIN active_ids /\ active_ids[c] = plan_id
                     THEN Put(active_ids, c, "default")
                     ELSE active_ids

\* The response of a route: the HTTP status, and the plans and the planId
\* of the body.
Response(fn, c, arg, status, plans, planId) ==
    [fn |-> fn, combo |-> c, arg |-> arg, status |-> status, plans |-> plans,
     planId |-> planId]
NoPlanCall == Response("none", <<>>, <<>>, 0, <<>>, "")

\* GET /default
read_default_plan(c) ==
    /\ plan_out' = Response("read_default_plan", c, <<>>, 200, <<_get_default_plan(c)>>, "")
    /\ UNCHANGED <<custom_plans, active_ids, default_overrides, uuids, plan_ops>>
    /\ UNCHANGED beside_plans
\* GET /custom
read_custom_plans(c) ==
    /\ plan_out' = Response("read_custom_plans", c, <<>>, 200, _list_custom_plans(c), "")
    /\ UNCHANGED <<custom_plans, active_ids, default_overrides, uuids, plan_ops>>
    /\ UNCHANGED beside_plans
\* GET /available
read_available_plans(c) ==
    /\ plan_out' = Response("read_available_plans", c, <<>>, 200, _get_available_plans(c), "")
    /\ UNCHANGED <<custom_plans, active_ids, default_overrides, uuids, plan_ops>>
    /\ UNCHANGED beside_plans
\* _get_active_plan: the default plan for "default", the custom plan of the
\* active id, or the default plan once an unknown id is reset.
Known(c, plan_id) ==
    plan_id = "default" \/ \E i \in 1 .. Len(StoredPlans(c)) : StoredPlans(c)[i].id = plan_id
_get_active_plan(c) ==
    LET active_id == _get_active_plan_id(c)
        listed == _list_custom_plans(c)
    IN  IF active_id = "default" THEN _get_default_plan(c)
        ELSE IF \E i \in 1 .. Len(listed) : listed[i].id = active_id
        THEN listed[CHOOSE i \in 1 .. Len(listed) :
                        /\ listed[i].id = active_id
                        /\ \A j \in 1 .. i - 1 : listed[j].id # active_id]
        ELSE _get_default_plan(c)
\* GET /active: planId is the id read before _get_active_plan resets it.
read_active_plan(c) ==
    /\ plan_out' = Response("read_active_plan", c, <<>>, 200, <<_get_active_plan(c)>>,
                            _get_active_plan_id(c))
    /\ active_ids' = IF Known(c, _get_active_plan_id(c)) THEN active_ids
                     ELSE Put(active_ids, c, "default")
    /\ UNCHANGED <<custom_plans, default_overrides, uuids, plan_ops>>
    /\ UNCHANGED beside_plans
\* POST /active
set_active_plan(c, planId) ==
    /\ plan_ops < MaxPlanOps
    /\ plan_ops' = plan_ops + 1
    /\ LET available == _get_available_plans(c)
       IN  IF \A i \in 1 .. Len(available) : available[i].id # planId
           THEN /\ plan_out' = Response("set_active_plan", c, planId, 404, <<>>, "")
                /\ active_ids' = active_ids
           ELSE /\ plan_out' = Response("set_active_plan", c, planId, 200, <<>>, planId)
                /\ active_ids' = Put(active_ids, c, planId)
    /\ UNCHANGED <<custom_plans, default_overrides, uuids>>
    /\ UNCHANGED beside_plans
\* PUT /custom
upsert_plan(c, plan) ==
    /\ plan_ops < MaxPlanOps
    /\ plan_ops' = plan_ops + 1
    /\ uuids' = IF plan.id = "" THEN uuids + 1 ELSE uuids
    /\ LET normalized == _normalize_plan(plan, Substrate(c), "")
       IN  IF normalized.id = "default"
           THEN IF Cultivar(c) \notin EDITABLE_DEFAULT_CULTIVARS
                THEN /\ plan_out' = Response("upsert_plan", c, plan, 400, <<>>, "")
                     /\ UNCHANGED <<custom_plans, default_overrides>>
                ELSE /\ default_overrides' = Put(default_overrides, c, normalized)
                     /\ plan_out' = Response("upsert_plan", c, plan, 200, <<normalized>>, "")
                     /\ UNCHANGED custom_plans
           ELSE /\ custom_plans' = _save_custom_plan(c, normalized)
                /\ plan_out' = Response("upsert_plan", c, plan, 200, <<normalized>>, "")
                /\ UNCHANGED default_overrides
    /\ UNCHANGED active_ids
    /\ UNCHANGED beside_plans
\* POST /custom
create_plan(c, plan) ==
    /\ plan_ops < MaxPlanOps
    /\ plan_ops' = plan_ops + 1
    /\ uuids' = IF plan.id = "" THEN uuids + 1 ELSE uuids
    /\ LET with_id == [plan EXCEPT !.id = IF plan.id # "" THEN plan.id ELSE _generate_plan_id]
           result == _normalize_plan(with_id, Substrate(c), "")
       IN  /\ custom_plans' = _save_custom_plan(c, result)
           /\ plan_out' = Response("create_plan", c, plan, 200, <<result>>, "")
    /\ UNCHANGED <<active_ids, default_overrides>>
    /\ UNCHANGED beside_plans
\* DELETE /custom/{plan_id}
delete_plan(c, plan_id) ==
    /\ plan_ops < MaxPlanOps
    /\ plan_ops' = plan_ops + 1
    /\ IF plan_id = "default"
       THEN IF Cultivar(c) \notin EDITABLE_DEFAULT_CULTIVARS
            THEN /\ plan_out' = Response("delete_plan", c, plan_id, 400, <<>>, "")
                 /\ UNCHANGED <<custom_plans, active_ids, default_overrides>>
            ELSE /\ default_overrides' = Del(default_overrides, c)
                 /\ plan_out' = Response("delete_plan", c, plan_id, 200, <<>>, "")
                 /\ UNCHANGED <<custom_plans, active_ids>>
       ELSE IF Len(Filtered(c, plan_id)) = Len(StoredPlans(c))
            THEN /\ plan_out' = Response("delete_plan", c, plan_id, 404, <<>>, "")
                 /\ UNCHANGED <<custom_plans, active_ids, default_overrides>>
            ELSE /\ _delete_custom_plan(c, plan_id)
                 /\ plan_out' = Response("delete_plan", c, plan_id, 200, <<>>, "")
                 /\ UNCHANGED default_overrides
    /\ UNCHANGED uuids
    /\ UNCHANGED beside_plans

\* The plan stores a behaviour starts with: none yet, or one written earlier
\* that holds an override of a read-only default plan, and an active id whose
\* plan is gone.
PlanStore(name) ==
    IF name = "fresh"
    THEN [customPlans |-> <<>>, activePlanIds |-> <<>>, defaultPlanOverrides |-> <<>>]
    ELSE [customPlans |-> <<>>,
          activePlanIds |-> [c \in {<<"blue_dream", "soil">>} |-> "p7"],
          defaultPlanOverrides |->
              [c \in {<<"wedding_cake", "coco">>} |->
                  [id |-> "default", isDefault |-> FALSE, osmosisShare |-> 55,
                   plan |-> << TemplateEntry(Week(1), 3, Some(2), "per_liter") >>]]]
PlansInit(store) ==
    /\ custom_plans = store.customPlans
    /\ active_ids = store.activePlanIds
    /\ default_overrides = store.defaultPlanOverrides
    /\ uuids = 0
    /\ plan_out = NoPlanCall
    /\ plan_ops = 0
PlansNext ==
    \E c \in Combos :
        \/ read_default_plan(c)
        \/ read_custom_plans(c)
        \/ read_available_plans(c)
        \/ read_active_plan(c)
        \/ \E planId \in PlanIds : set_active_plan(c, planId)
        \/ \E plan \in PlanPayloads : upsert_plan(c, plan)
        \/ \E plan \in PlanPayloads : create_plan(c, plan)
        \/ \E plan_id \in PlanIds : delete_plan(c, plan_id)

\* ------------------------------- plan_routes.py: the routes, store call by store call
\* The routes are plain functions, which FastAPI runs in worker threads.  Each
\* store call takes the file lock on its own (storage.py: load_store for a read,
\* set_collection_key for a write), so a route is a sequence of locked store
\* calls with the lock free between them: _load_store_payload is three reads,
\* _save_store_payload three writes of whole keys.
PlanWorkers == {"w1", "w2"}
StoreKeys == <<"customPlans", "activePlanIds", "defaultPlanOverrides">>
NoPayload == [customPlans |-> <<>>, activePlanIds |-> <<>>, defaultPlanOverrides |-> <<>>]
\* The calls of the workers, all for one combo.
BusyCombo == <<"blue_dream", "soil">>
CustomPayload == CHOOSE plan \in PlanPayloads : plan.id = "p1"
OverridePayload == CHOOSE plan \in PlanPayloads : plan.id = "default" /\ plan.isDefault
RouteCalls ==
    { [route |-> "create_plan", plan |-> <<CustomPayload>>, id |-> ""],
      [route |-> "upsert_plan", plan |-> <<OverridePayload>>, id |-> ""],
      [route |-> "set_active_plan", plan |-> <<>>, id |-> "p1"],
      [route |-> "set_active_plan", plan |-> <<>>, id |-> "default"],
      [route |-> "delete_plan", plan |-> <<>>, id |-> "p1"],
      [route |-> "read_active_plan", plan |-> <<>>, id |-> ""] }
\* A worker between two requests.
NoRoute ==
    [route |-> "none", fn |-> "", phase |-> "idle", k |-> 0,
     payload |-> NoPayload, plan_id |-> "", ids |-> {}, status |-> 0, plan |-> <<>>,
     planId |-> ""]
\* The worker calls fn, which starts with _load_store_payload.
Calls(r, fn) == [r EXCEPT !.fn = fn, !.phase = "load", !.k = 0, !.payload = NoPayload]
\* The worker goes on to _save_store_payload(payload).
Saves(r, payload) == [r EXCEPT !.phase = "save", !.k = 0, !.payload = payload]
\* The route returns, or raises HTTPException(status).
Responds(r, status) == [r EXCEPT !.phase = "done", !.status = status]

\* The helpers of the routes on a payload that _load_store_payload returned.
PayloadPlans(payload, c) ==
    IF c \in DOMAIN payload.customPlans THEN payload.customPlans[c] ELSE <<>>
PayloadDefault(payload, c) ==
    IF Cultivar(c) \in EDITABLE_DEFAULT_CULTIVARS /\ c \in DOMAIN payload.defaultPlanOverrides
    THEN _clone_plan_template(DEFAULT_PLAN(c), payload.defaultPlanOverrides[c])
    ELSE DEFAULT_PLAN(c)
PayloadListed(payload, c) ==
    [i \in 1 .. Len(PayloadPlans(payload, c)) |->
        _normalize_plan(ManagedPlanPayload(PayloadPlans(payload, c)[i]), Substrate(c),
                        PayloadPlans(payload, c)[i].id)]
PayloadActiveId(payload, c) ==
    IF c \in DOMAIN payload.activePlanIds THEN payload.activePlanIds[c] ELSE "default"
PayloadSaved(payload, c, plan) ==
    LET stored == PayloadPlans(payload, c)
        hits == {i \in 1 .. Len(stored) : stored[i].id = plan.id}
        idx == IF hits = {} THEN 0 ELSE CHOOSE i \in hits : \A j \in hits : i <= j
    IN  [payload EXCEPT !.customPlans =
            Put(@, c, IF idx > 0 THEN [stored EXCEPT ![idx] = plan] ELSE Append(stored, plan))]
PayloadDeleted(payload, c, plan_id) ==
    [payload EXCEPT
        !.customPlans = Put(@, c, SelectSeq(PayloadPlans(payload, c),
                                            LAMBDA plan : plan.id # plan_id)),
        !.activePlanIds = IF c \in DOMAIN @ /\ @[c] = plan_id THEN Put(@, c, "default") ELSE @]
FirstOfId(plans, id) ==
    plans[CHOOSE i \in 1 .. Len(plans) :
             plans[i].id = id /\ \A j \in 1 .. i - 1 : plans[j].id # id]

\* A request arrives: the route runs up to its first store call.
StartRoute(w, call) ==
    /\ req[w].phase \in {"idle", "done"}
    /\ req_ops < MaxRouteCalls
    /\ req_ops' = req_ops + 1
    /\ LET r == [NoRoute EXCEPT !.route = call.route]
           c == BusyCombo
       IN  req' = [req EXCEPT ![w] =
             CASE call.route = "create_plan" ->
                    [Calls(r, "_save_custom_plan") EXCEPT
                        !.plan = << _normalize_plan(
                                       [call.plan[1] EXCEPT
                                           !.id = IF @ # "" THEN @ ELSE _generate_plan_id],
                                       Substrate(c), "") >>]
               [] call.route = "upsert_plan" ->
                    LET normalized == _normalize_plan(call.plan[1], Substrate(c), "")
                    IN  IF normalized.id # "default"
                        THEN [Calls(r, "_save_custom_plan") EXCEPT !.plan = <<normalized>>]
                        ELSE IF Cultivar(c) \notin EDITABLE_DEFAULT_CULTIVARS
                        THEN Responds(r, 400)
                        ELSE [Calls(r, "upsert_plan") EXCEPT !.plan = <<normalized>>]
               [] call.route = "set_active_plan" ->
                    [Calls(r, "_get_default_plan") EXCEPT !.plan_id = call.id]
               [] call.route = "delete_plan" ->
                    IF call.id # "default"
                    THEN [Calls(r, "_delete_custom_plan") EXCEPT !.plan_id = call.id]
                    ELSE IF Cultivar(c) \notin EDITABLE_DEFAULT_CULTIVARS
                    THEN Responds(r, 400)
                    ELSE Calls(r, "delete_plan")
               [] OTHER -> Calls(r, "read_active_plan")]
    /\ uuids' = IF call.route \in {"create_plan", "upsert_plan"} /\ call.plan[1].id = ""
                THEN uuids + 1 ELSE uuids
    /\ UNCHANGED <<custom_plans, active_ids, default_overrides, plan_out, plan_ops>>
    /\ UNCHANGED beside_req

\* What the worker does with the payload once _load_store_payload has returned.
AfterLoad(r) ==
    LET c == BusyCombo
        payload == r.payload
        listed == PayloadListed(payload, c)
        found(id) == \E i \in 1 .. Len(listed) : listed[i].id = id
    IN  CASE r.fn = "_save_custom_plan" -> Saves(r, PayloadSaved(payload, c, r.plan[1]))
          [] r.fn = "upsert_plan" ->
               Saves(r, [payload EXCEPT !.defaultPlanOverrides = Put(@, c, r.plan[1])])
          [] r.fn = "delete_plan" ->
               IF c \in DOMAIN payload.defaultPlanOverrides
               THEN Saves(r, [payload EXCEPT !.defaultPlanOverrides = Del(@, c)])
               ELSE Responds(r, 200)
          [] r.fn = "_delete_custom_plan" ->
               IF \A i \in 1 .. Len(PayloadPlans(payload, c)) :
                     PayloadPlans(payload, c)[i].id # r.plan_id
               THEN Responds(r, 404)
               ELSE Saves(r, PayloadDeleted(payload, c, r.plan_id))
          \* set_active_plan: _get_available_plans, the check, _set_active_plan_id
          [] r.fn = "_get_default_plan" /\ r.route = "set_active_plan" ->
               [Calls(r, "_list_custom_plans") EXCEPT !.ids = {PayloadDefault(payload, c).id}]
          [] r.fn = "_list_custom_plans" /\ r.route = "set_active_plan" ->
               IF r.plan_id \in r.ids \cup {listed[i].id : i \in 1 .. Len(listed)}
               THEN Calls(r, "_set_active_plan_id")
               ELSE Responds(r, 404)
          [] r.fn = "_set_active_plan_id" ->
               Saves(r, [payload EXCEPT !.activePlanIds = Put(@, c, r.plan_id)])
          \* read_active_plan: _get_active_plan_id, then _get_active_plan
          [] r.fn = "read_active_plan" ->
               [Calls(r, "_get_active_plan_id") EXCEPT !.planId = PayloadActiveId(payload, c)]
          [] r.fn = "_get_active_plan_id" ->
               IF PayloadActiveId(payload, c) = "default"
               THEN Calls(r, "_get_default_plan")
               ELSE [Calls(r, "_list_custom_plans") EXCEPT
                        !.plan_id = PayloadActiveId(payload, c)]
          [] r.fn = "_list_custom_plans" ->
               IF found(r.plan_id)
               THEN [Responds(r, 200) EXCEPT !.plan = <<FirstOfId(listed, r.plan_id)>>]
               ELSE [Calls(r, "_set_active_plan_id") EXCEPT !.plan_id = "default"]
          [] OTHER ->
               [Responds(r, 200) EXCEPT !.plan = <<PayloadDefault(payload, c)>>]
\* What the worker does once _save_store_payload has returned.
AfterSave(r) ==
    IF r.route = "read_active_plan" THEN Calls(r, "_get_default_plan")
    ELSE IF r.route = "set_active_plan" THEN [Responds(r, 200) EXCEPT !.planId = r.plan_id]
    ELSE Responds(r, 200)

\* One get_collection_key of _load_store_payload: the next key is read.
get_collection_key(w) ==
    /\ req[w].phase = "load"
    /\ LET key == StoreKeys[req[w].k + 1]
           value == CASE key = "customPlans" -> custom_plans
                      [] key = "activePlanIds" -> active_ids
                      [] OTHER -> default_overrides
           read == [req[w] EXCEPT !.k = @ + 1, !.payload[key] = value]
       IN  req' = [req EXCEPT ![w] = IF read.k = Len(StoreKeys) THEN AfterLoad(read) ELSE read]
    /\ UNCHANGED <<custom_plans, active_ids, default_overrides, uuids, plan_out, plan_ops,
                   req_ops>>
    /\ UNCHANGED beside_req
\* One set_collection_key of _save_store_payload: the next key is replaced.
set_collection_key(w) ==
    /\ req[w].phase = "save"
    /\ LET key == StoreKeys[req[w].k + 1]
           written == [req[w] EXCEPT !.k = @ + 1]
       IN  /\ custom_plans' = IF key = "customPlans" THEN req[w].payload[key] ELSE custom_plans
           /\ active_ids' = IF key = "activePlanIds" THEN req[w].payload[key] ELSE active_ids
           /\ default_overrides' = IF key = "defaultPlanOverrides" THEN req[w].payload[key]
                                   ELSE default_overrides
           /\ req' = [req EXCEPT ![w] = IF written.k = Len(StoreKeys) THEN AfterSave(written)
                                        ELSE written]
    /\ UNCHANGED <<uuids, plan_out, plan_ops, req_ops>>
    /\ UNCHANGED beside_req
RoutesInit == req = [w \in PlanWorkers |-> NoRoute] /\ req_ops = 0
RoutesNext ==
    \E w \in PlanWorkers :
        \/ \E call \in RouteCalls : StartRoute(w, call)
        \/ get_collection_key(w)
        \/ set_collection_key(w)

\* ------------------------------------------ photonflux backend/app.py: store
\* persist.json holds one dict per collection; the calls modelled work on one
\* collection, so the file is a function key -> data, <<>> while it is missing.
\* open(data_file, "w") empties the file before json.dump fills it.
Truncated == [torn |-> 0]
\* _read_store_unlocked: the parsed file, {} when json.load raises.
_read_store_unlocked(file) == IF file = Truncated THEN <<>> ELSE file
PfIdle(p) == pf_pc[p] = "idle"
\* store_set is called with a key no earlier call had, as the workers of
\* test_concurrent_store_access_preserves_data do.
store_set(p) ==
    /\ PfIdle(p)
    /\ pf_ops < MaxStoreOps
    /\ pf_ops' = pf_ops + 1
    /\ pf_call' = [pf_call EXCEPT ![p] = <<"key-" \o ToString(pf_ops + 1), p>>]
    /\ pf_pc' = [pf_pc EXCEPT ![p] = "set_lock"]
    /\ UNCHANGED <<pf_file, pf_lock, pf_data, pf_done>>
    /\ UNCHANGED beside_pf
\* _load_store is called.
_load_store(p) ==
    /\ PfIdle(p)
    /\ pf_ops < MaxStoreOps
    /\ pf_ops' = pf_ops + 1
    /\ pf_pc' = [pf_pc EXCEPT ![p] = "load_lock"]
    /\ UNCHANGED <<pf_file, pf_lock, pf_call, pf_data, pf_done>>
    /\ UNCHANGED beside_pf
\* A variant of _store_lock that lets a worker in while the lock is held.
StoreLockShared(p) ==
    /\ pf_pc[p] \in {"set_lock", "load_lock"}
    /\ pf_lock' = p
    /\ pf_pc' = [pf_pc EXCEPT ![p] = IF pf_pc[p] = "set_lock" THEN "set_read" ELSE "load_read"]
    /\ UNCHANGED <<pf_file, pf_call, pf_data, pf_done, pf_ops>>
    /\ UNCHANGED beside_pf
\* with _store_lock(): the worker takes persist.json.lock once it is free.
_store_lock(p) ==
    /\ pf_pc[p] \in {"set_lock", "load_lock"}
    /\ pf_lock = NoProc
    /\ pf_lock' = p
    /\ pf_pc' = [pf_pc EXCEPT ![p] = IF pf_pc[p] = "set_lock" THEN "set_read" ELSE "load_read"]
    /\ UNCHANGED <<pf_file, pf_call, pf_data, pf_done, pf_ops>>
    /\ UNCHANGED beside_pf
\* data = _read_store_unlocked(), in store_set and in _load_store.
ReadStore(p) ==
    /\ pf_pc[p] \in {"set_read", "load_read"}
    /\ pf_data' = [pf_data EXCEPT ![p] = _read_store_unlocked(pf_file)]
    /\ pf_pc' = [pf_pc EXCEPT ![p] = IF pf_pc[p] = "set_read" THEN "set_open" ELSE "unlock"]
    /\ UNCHANGED <<pf_file, pf_lock, pf_call, pf_done, pf_ops>>
    /\ UNCHANGED beside_pf
\* store_set: data.setdefault(collection, {})[key] = payload.data, then
\* _write_store_unlocked opens the file for writing, which empties it.
OpenForWrite(p) ==
    /\ pf_pc[p] = "set_open"
    /\ pf_data' = [pf_data EXCEPT ![p] = Put(pf_data[p], pf_call[p][1], pf_call[p][2])]
    /\ pf_file' = Truncated
    /\ pf_pc' = [pf_pc EXCEPT ![p] = "set_dump"]
    /\ UNCHANGED <<pf_lock, pf_call, pf_done, pf_ops>>
    /\ UNCHANGED beside_pf
\* _write_store_unlocked: json.dump writes the dict.
DumpStore(p) ==
    /\ pf_pc[p] = "set_dump"
    /\ pf_file' = pf_data[p]
    /\ pf_pc' = [pf_pc EXCEPT ![p] = "set_unlock"]
    /\ UNCHANGED <<pf_lock, pf_call, pf_data, pf_done, pf_ops>>
    /\ UNCHANGED beside_pf
\* The with block ends: the lock is released and the call returns.
UnlockStore(p) ==
    /\ pf_pc[p] \in {"set_unlock", "unlock"}
    /\ pf_lock' = IF pf_lock = p THEN NoProc ELSE pf_lock
    /\ pf_done' = IF pf_pc[p] = "set_unlock" THEN pf_done \cup {pf_call[p]} ELSE pf_done
    /\ pf_pc' = [pf_pc EXCEPT ![p] = "idle"]
    /\ UNCHANGED <<pf_file, pf_call, pf_data, pf_ops>>
    /\ UNCHANGED beside_pf
StoreInit ==
    /\ pf_file = <<>>
    /\ pf_lock = NoProc
    /\ pf_pc = [p \in Proc |-> "idle"]
    /\ pf_call = [p \in Proc |-> <<"", 0>>]
    /\ pf_data = [p \in Proc |-> <<>>]
    /\ pf_done = {}
    /\ pf_ops = 0
StoreNext ==
    \E p \in Proc :
        \/ store_set(p)
        \/ _load_store(p)
        \/ _store_lock(p)
        \/ ReadStore(p)
        \/ OpenForWrite(p)
        \/ DumpStore(p)
        \/ UnlockStore(p)

\* ------------------------------------------------ _generate_json_with_retry
\* _retry_settings with no GEMINI_* variable set, delays in seconds.
_retry_settings == [tries |-> 4, initial_delay |-> 1, max_delay |-> 16]
\* A variant of _RETRYABLE_API_CODES that also holds 400.
RetryableWithBadRequest == {400, 429, 500, 502, 503, 504}
_RETRYABLE_API_CODES == {429, 500, 502, 503, 504}
\* The codes generate_content raises APIError with.
ApiCodes == _RETRYABLE_API_CODES \cup {400, 404}
\* What one generate_content call does: raise APIError with a code, return a
\* text _extract_json finds a dict in, or return a text it finds none in.
CallOutcomes ==
    [kind : {"APIError"}, code : ApiCodes]
       \cup {[kind |-> "dict", code |-> 0], [kind |-> "text", code |-> 0]}
NoGen ==
    [pc |-> "idle", tries |-> None, attempt_limit |-> 0, attempt |-> 0, client |-> "None",
     delay |-> 0, extra_instruction |-> "", calls |-> 0, slept |-> <<>>, resets |-> 0,
     last |-> [kind |-> "none", code |-> 0]]
\* The caller's arguments: tries is None (the three routes) or a number (the tests).
TriesArgs == {None} \cup {Some(n) : n \in 1 .. MaxTries}
\* Lines 408-417: the settings are read and the loop is entered.
_generate_json_with_retry(tries_arg) ==
    /\ gen.pc = "idle"
    /\ LET limit == IF tries_arg = None THEN _retry_settings.tries ELSE tries_arg[1]
       IN  gen' = [NoGen EXCEPT !.pc = "loop", !.tries = tries_arg,
                                !.attempt_limit = Max(1, limit),
                                !.delay = _retry_settings.initial_delay,
                                !.extra_instruction = "given"]
    /\ UNCHANGED CLIENT
    /\ UNCHANGED beside_gen
\* One pass of the loop, lines 419-476: the client is fetched when the local
\* one is None, generate_content is called and its outcome handled.
Attempt(o) ==
    /\ gen.pc = "loop"
    /\ LET called == [gen EXCEPT !.calls = @ + 1, !.last = o, !.client = "client"]
           cached == "client"
       IN  IF o.kind = "APIError"
             THEN IF o.code \in _RETRYABLE_API_CODES /\ gen.attempt < gen.attempt_limit - 1
                    THEN /\ gen' = [called EXCEPT !.slept = Append(@, gen.delay),
                                                  !.delay = Min(gen.delay * 2, _retry_settings.max_delay),
                                                  !.client = "None",
                                                  !.resets = @ + 1,
                                                  !.attempt = @ + 1]
                         /\ CLIENT' = "None"
                    ELSE /\ gen' = [called EXCEPT !.pc = "raised"]
                         /\ CLIENT' = cached
             ELSE IF o.kind = "dict"
                    THEN /\ gen' = [called EXCEPT !.pc = "returned"]
                         /\ CLIENT' = cached
                    ELSE /\ gen' = [called EXCEPT !.extra_instruction = "strict",
                                                  !.attempt = @ + 1,
                                                  !.pc = IF gen.attempt + 1 < gen.attempt_limit
                                                           THEN "loop" ELSE "returned"]
                         /\ CLIENT' = cached
    /\ UNCHANGED beside_gen
GenInit == gen = NoGen /\ CLIENT = "None"
GenNext ==
    \/ \E tries_arg \in TriesArgs : _generate_json_with_retry(tries_arg)
    \/ \E o \in CallOutcomes : Attempt(o)

Init ==
    /\ \E i \in Installations :
          LedgerInit(i.env) /\ EngineInit(i.data, i.plants) /\ PlansInit(PlanStore(i.store))
    /\ CalcInit
    /\ StoreInit
    /\ GenInit
    /\ RoutesInit
Next ==
    LedgerNext \/ EngineNext \/ check_refill_needed \/ CalcNext \/ RecipeNext \/ PlansNext
    \/ StoreNext \/ GenNext \/ RoutesNext

\* The SQLite ledger while every statement succeeds and every lock wait ends.
SpecLedger == Init /\ [][LedgerNext]_vars
\* The SQLite ledger with storage failures and lock timeouts.
SpecLedgerFault == Init /\ [][LedgerNext \/ LedgerFault]_vars

\* The calculator while every lock wait ends and every file access succeeds.
SpecEngine == Init /\ [][EngineNext]_vars
\* The calculator with lock timeouts and file errors.
SpecEngineFault == Init /\ [][EngineNext \/ EngineFault]_vars

\* The calculator with lock timeouts, file errors and a state file that may be
\* found unparsable.
SpecEngineDamage == Init /\ [][EngineNext \/ EngineFault \/ FileDamage]_vars

\* The calculator, also called with liters that are not finite.
SpecEngineFloat == Init /\ [][EngineNext \/ EngineNonFinite]_vars

\* The pure functions on their inputs.
SpecCalc == Init /\ [][CalcNext]_vars

\* The recipe normalizations on their inputs.
SpecRecipe == Init /\ [][RecipeNext]_vars

\* The calculator, with shopping lists asked for between its steps.
SpecRefill == Init /\ [][EngineNext \/ check_refill_needed]_vars

\* The PhotonFlux store with concurrent workers, while every lock wait ends
\* and every write succeeds.
SpecStore == Init /\ [][StoreNext]_vars

\* One call of _generate_json_with_retry, with every outcome of each model call.
SpecRetry == Init /\ [][GenNext]_vars

\* The plan routes, called one after the other.
SpecPlans == Init /\ [][PlansNext]_vars

\* The plan routes run by concurrent worker threads, while every lock wait ends
\* and every read and write succeeds.
SpecRoutes == Init /\ [][RoutesNext]_vars

\* The ledger and the calculator keep separate files and share no state, and no
\* code path uses both: a behaviour of SpecStores works on one of the two
\* stores, with the faults of that store.
LedgerStore == eops = 0 /\ (LedgerNext \/ LedgerFault)
EngineStore == ops = 0 /\ (EngineNext \/ EngineFault)
SpecStores == Init /\ [][LedgerStore \/ EngineStore]_vars

Spec == Init /\ [][Next]_vars

\* ------------------------------------------------------------------ claims
\* What caller p asked for component k: a negative amount asks for nothing.
Requested(p, k) ==
    IF k \in DOMAIN request[p] /\ request[p][k] > 0 THEN request[p][k] ELSE 0
\* Caller p's call ends in this step.
Ends(p) == pc[p] # "idle" /\ pc'[p] = "idle"
\* The step is a set_stock call.
IsSetStock == ops' = ops + 1 /\ pc' = pc

SixGrams == [A |-> 6 * Gram]
C1_Done(p, q) ==
    /\ p # q
    /\ ops = 2
    /\ last_set = NoSet
    /\ request[p] = SixGrams /\ request[q] = SixGrams
    /\ pc[p] = "idle" /\ pc[q] = "idle"
    /\ inventory["A"].initial_grams = 10 * Gram

\* C1: from 10 g of A, two concurrent apply_consumption calls of 6 g each end
\* with one committed, the other raising InsufficientInventoryError, and 4 g left.
C1_OneOfTwoCommits ==
    \A p, q \in Proc :
        C1_Done(p, q) =>
            /\ {outcome[p].kind, outcome[q].kind} = {"ok", "insufficient"}
            /\ inventory["A"].grams = 4 * Gram

C1_Witness ==
    /\ C1_Done(1, 2)
    /\ outcome[1].kind = "insufficient"
    /\ outcome[2].kind = "ok"
    /\ inventory["A"].grams = 4 * Gram

\* C3 as stated: a call either commits every component decreased by exactly the
\* requested amount, or raises and changes nothing.
C3_ExactDecrease ==
    [][/\ \A p \in Proc :
            Ends(p) =>
              \/ /\ outcome'[p].kind = "ok"
                 /\ \A k \in COMPONENT_KEYS :
                       /\ Requested(p, k) <= inventory[k].grams + EPS
                       /\ inventory'[k].grams = inventory[k].grams - Requested(p, k)
              \/ /\ outcome'[p].kind = "insufficient"
                 /\ \E k \in COMPONENT_KEYS : Requested(p, k) > inventory[k].grams + EPS
                 /\ inventory' = inventory
              \/ /\ outcome'[p].kind = "storage"
                 /\ inventory' = inventory
       /\ (~IsSetStock /\ \A p \in Proc : ~Ends(p)) => inventory' = inventory
      ]_vars

\* C3, amended: a call either commits every component decreased by the requested
\* amount, floored at 0, or raises and changes nothing; no other step of a call
\* changes the committed table.
C3_AllOrNothing ==
    [][/\ \A p \in Proc :
            Ends(p) =>
              \/ /\ outcome'[p].kind = "ok"
                 /\ \A k \in COMPONENT_KEYS :
                       /\ Requested(p, k) <= inventory[k].grams + EPS
                       /\ inventory'[k].grams =
                            IF Requested(p, k) >= inventory[k].grams
                            THEN 0 ELSE inventory[k].grams - Requested(p, k)
                       /\ inventory'[k].initial_grams = inventory[k].initial_grams
              \/ /\ outcome'[p].kind = "insufficient"
                 /\ \E k \in COMPONENT_KEYS : Requested(p, k) > inventory[k].grams + EPS
                 /\ inventory' = inventory
              \/ /\ outcome'[p].kind = "storage"
                 /\ inventory' = inventory
       /\ (~IsSetStock /\ \A p \in Proc : ~Ends(p)) => inventory' = inventory
      ]_vars

C3_Witness ==
    \E p, q \in Proc :
        /\ request[p] = [A |-> 4 * Gram + EPS] /\ outcome[p].kind = "ok"
        /\ request[q] = [A |-> 4 * Gram, B |-> 6 * Gram]
        /\ outcome[q].kind = "insufficient"
        /\ inventory["A"] = [grams |-> 0, initial_grams |-> 4 * Gram]
        /\ inventory["B"].grams = 0

\* C7 as stated: the error of a rejected consumption names every component that
\* is short, each with its exact requested and available amount.
C7_EveryDeficitNamed ==
    [][\A p \in Proc :
          (Ends(p) /\ outcome'[p].kind = "insufficient") =>
             outcome'[p].deficits =
               {[component |-> k, used |-> Requested(p, k),
                 available |-> inventory[k].grams] :
                  k \in {c \in COMPONENT_KEYS :
                            Requested(p, c) > inventory[c].grams + EPS}}
      ]_vars

\* What caller p's confirm takes of component k: _consume_mix, lines 220-222.
Used(p, k) == Max(0, Get(emix[p], k))
\* Caller p's current call is a confirm (mix_tank or consume_mix) that has returned.
Confirmed(p) ==
    /\ ecall[p].op \in {"mix_tank", "consume_mix"}
    /\ epc[p] = "idle"
    /\ eout[p].kind = "ok"

\* C2 as stated: when two callers have each confirmed one mix, taking x and y of
\* a component whose stock s was at least x + y, the stored stock is s - x - y.
C2_NoLostUpdate ==
    \A p, q \in Proc :
        (p # q /\ eops = 2 /\ Confirmed(p) /\ Confirmed(q)) =>
            \A k \in ConfigKeys :
                stock0[k] >= Used(p, k) + Used(q, k) =>
                    state_file[k] = stock0[k] - Used(p, k) - Used(q, k)

\* C4: in the ledger and in the calculator's state file, every component's
\* stored amount is at least 0, whatever calls were made and however they
\* interleaved.
C4_StockNeverNegative ==
    /\ \A k \in COMPONENT_KEYS :
          inventory[k].grams >= 0 /\ inventory[k].initial_grams >= 0
    /\ \A k \in DOMAIN state_file : state_file[k] >= 0

\* A consume_mix of far more than the stock has been written, after a
\* concurrent confirm.
C4_Witness ==
    \E p, q \in Proc :
        /\ p # q
        /\ Confirmed(p) /\ Confirmed(q)
        /\ ecall[p].mix_data = [part_a |-> 99999900]
        /\ ecall[q].mix_data = [part_a |-> 600, kelp |-> 0 - 50, foo |-> 3]
        /\ state_file["part_a"] = 0
        /\ stock0["part_a"] = 50000

\* C5 as stated: a component's current amount never exceeds its full capacity
\* (initial_grams in the ledger, full_size in the calculator), also after set_stock.
C5_WithinCapacity ==
    /\ \A k \in COMPONENT_KEYS : inventory[k].grams <= inventory[k].initial_grams
    /\ \A k \in ConfigKeys : state_file[k] <= InventoryConfig[k].full_size

\* The mix {"part_a": 999999} (grams) of C6.
Oversized == [part_a |-> 99999900]

\* C6 as stated: consuming {"part_a": 999999} against 500 g capacity and 500 g
\* stock raises InsufficientInventoryError reporting available = 500 and
\* requested = 999999.
C6_OversizedRejected ==
    \A p \in Proc :
        ( /\ ecall[p].op = "consume_mix"
          /\ ecall[p].mix_data = Oversized
          /\ epc[p] = "idle"
          /\ eops = 1
          /\ InventoryConfig["part_a"].full_size = 50000
          /\ stock0["part_a"] = 50000 ) =>
            /\ eout[p].kind = "insufficient"
            /\ eout[p].deficits =
                 {[component |-> "part_a", used |-> 99999900, available |-> 50000]}
            /\ state_file = stock0

\* Caller p has made two successive mix_tank calls with the same arguments, the
\* only calls so far, and the second has returned.
ConfirmedTwice(p) ==
    /\ eops = 2
    /\ ecall[p].op = "mix_tank"
    /\ repeats[p]
    /\ Confirmed(p)

\* C8: two successive mix_tank calls with the same phase and liters each deduct
\* the mix: a component whose stock covers twice its mix amount ends at the
\* initial stock less twice that amount.
C8_ConfirmTwiceDeductsTwice ==
    \A p \in Proc :
        ConfirmedTwice(p) =>
            \A k \in ConfigKeys :
                stock0[k] >= 2 * Used(p, k) =>
                    state_file[k] = stock0[k] - 2 * Used(p, k)

C8_Witness ==
    /\ ConfirmedTwice(1)
    /\ ecall[1].week_key = Week(1)
    /\ Used(1, "part_c") = 1000
    /\ stock0["part_c"] = 50000
    /\ state_file["part_c"] = 48000

\* The step is a preview_plan call of caller p.
IsPreview(p) ==
    /\ epc[p] = "idle"
    /\ eops' = eops + 1
    /\ ecall'[p].op = "preview_plan"
    /\ epc' = epc
\* Caller p's last call is a preview, caller q's last call is a preview or a
\* confirm with the same phase and liters, and both have returned or raised.
SameInputs(p, q) ==
    /\ p # q
    /\ ecall[p].op = "preview_plan"
    /\ ecall[q].op \in {"preview_plan", "mix_tank"}
    /\ ecall[q].week_key = ecall[p].week_key
    /\ ecall[q].liters = ecall[p].liters
    /\ epc[q] = "idle"

\* C9: a preview never changes the stored inventory, and previews of the same
\* phase and liters give the same mix and top dress whatever was previewed or
\* confirmed before (the same result the confirm of these inputs returns).
C9_PreviewPure ==
    /\ [][(\E p \in Proc : IsPreview(p)) => state_file' = state_file]_vars
    /\ [](\A p, q \in Proc :
            SameInputs(p, q) =>
               /\ eout[p].kind = eout[q].kind
               /\ eout[p].mix = eout[q].mix
               /\ eout[p].top_dress = eout[q].top_dress)

\* A preview of (W1, 10 l) has returned while the same mix was confirmed and
\* booked by the other caller.
C9_Witness ==
    /\ SameInputs(1, 2)
    /\ ecall[1].week_key = Week(1) /\ ecall[1].liters = 1000
    /\ ecall[2].op = "mix_tank"
    /\ eout[1].kind = "ok"
    /\ eout[1].mix["part_a"] = 1400
    /\ state_file # stock0

\* Caller p's call has failed: insufficient stock, or a storage or lock error.
Failed(p) == outcome[p].kind \in {"insufficient", "storage"} \/ eout[p].kind = "storage"

\* C10: a call begins at most one transaction (ledger) and reads the state file
\* for at most one subtraction (calculator); once it has failed it has ended;
\* and a call writes the stock only in the step in which it ends, so it deducts
\* its mix at most once.
C10_NoRetry ==
    /\ [](\A p \in Proc :
            /\ tries[p] <= 1
            /\ etries[p] <= 1
            /\ Failed(p) => (pc[p] = "idle" /\ epc[p] = "idle"))
    /\ [][/\ inventory' # inventory => (IsSetStock \/ \E p \in Proc : Ends(p))
          /\ state_file' # state_file =>
                \E p \in Proc : epc[p] = "save" /\ epc'[p] = "idle"
         ]_vars

\* One call failed inside its transaction and another was rejected for
\* insufficient stock; each began one transaction.
C10_Witness ==
    \E p, q \in Proc :
        /\ outcome[p].kind = "storage" /\ tries[p] = 1
        /\ outcome[q].kind = "insufficient" /\ tries[q] = 1
        /\ \A k \in COMPONENT_KEYS : inventory[k].grams = inventory[k].initial_grams

\* C11 as stated: a call that finds the state file unparsable raises to its
\* caller, and a call that raises leaves the stored stock as it was.
C11_ErrorsSurface ==
    [][\A p \in Proc :
          /\ (epc[p] = "load" /\ state_file = CorruptFile /\ epc'[p] # "load") =>
                (eout'[p].kind = "storage" /\ epc'[p] = "idle"
                   /\ state_file' = state_file)
          /\ (eout'[p].kind = "storage" /\ eout[p].kind # "storage") =>
                state_file' = state_file
      ]_vars

\* x (in 0.001 g) rounds half-up to r (in 0.01 g).
RoundsTo(x, r) == 10 * r <= x + 5 /\ x + 5 < 10 * r + 10
\* The same for a dose times litres x, in 0.0001 g.
ProductRoundsTo(x, r) == 100 * r <= x + 50 /\ x + 50 < 100 * r + 100
\* The stage of a plan phase: the veg labels, flower weeks, ripen from week 10.
StageOfPhase(ph) ==
    IF ph \in {EarlyVeg, MidVeg, LateVeg} THEN "veg"
    ELSE IF ph \in {Week(n) : n \in 10 .. 12} THEN "ripen"
    ELSE "flower"

\* C12: for every plan entry and liters > 0 the liquid mix is routed by stage,
\* each amount being the per-litre dose times the litres, rounded to 0.01 g:
\* veg A, X, 0, 0; flower A, 0, X, BZ; ripen 0, 0, X, BZ for part_a, part_b,
\* part_c, burst.
C12_StageRouting ==
    calc.fn = "calc_liquid_mix" =>
        LET liters == calc.arg[1]
            ph == calc.arg[2]
        IN  (liters > 0 /\ ph \in PlanPhases(CocoPlan)) =>
              LET e == PlanEntry(CocoPlan, ph)
                  stage == StageOfPhase(ph)
                  mix == calc.out.mix
              IN  /\ ~calc.out.err
                  /\ ProductRoundsTo((IF stage = "ripen" THEN 0 ELSE e.A) * liters, mix.part_a)
                  /\ ProductRoundsTo((IF stage = "veg" THEN e.X ELSE 0) * liters, mix.part_b)
                  /\ ProductRoundsTo((IF stage = "veg" THEN 0 ELSE e.X) * liters, mix.part_c)
                  /\ ProductRoundsTo((IF stage = "veg" THEN 0 ELSE e.BZ) * liters, mix.burst)

\* The liquid mix of (W1, 10 l) in the coco plan: part_a = round2(1.4 * 10).
C12_Witness ==
    /\ calc.fn = "calc_liquid_mix"
    /\ calc.arg = <<1000, Week(1)>>
    /\ ~calc.out.err
    /\ calc.out.mix.part_a = 1400
    /\ calc.out.mix.part_b = 0
    /\ calc.out.mix.part_c = 1000

\* ----------------------------------------------------------------- C13
IsDose == calc.fn = "calculate_dose" /\ ~calc.out.none
Weight(cond) == IF cond THEN 1 ELSE 0
\* The stage class of the phases of DoseEntries, as a table.
DoseStage(ph) ==
    IF ph = MidVeg THEN "VEG"
    ELSE IF ph = Week(2) THEN "P23"
    ELSE IF ph \in {Week(4), Week(5), Week(7)} THEN "P47"
    ELSE "RIPEN"
\* max(0, round2(milli)) = r, round2 being half-up from 0.001 to 0.01.
FlooredRound(milli, r) ==
    \/ r = 0 /\ milli < 5
    \/ r > 0 /\ RoundsTo(milli, r)
\* The sums of the deltas of the rules that fire, in 0.001 g/L.
SumA(o) ==
    LET rising == o.trend = "higher"
    IN  0 - 80 * Weight(o.claw = "yes")
        + 100 * Weight(o.pale = "yes" /\ ~rising /\ DoseStage(o.phase) # "RIPEN")
        + 50 * Weight(o.caMgDeficiency = "yes" /\ ~rising /\ o.claw = "no")
        - 40 * Weight(o.tipburn = "yes" /\ ~rising)
        - 60 * Weight(o.tipburn = "yes" /\ rising)
        - 50 * Weight(o.phDrift = "high")
        + 50 * Weight(o.phDrift = "low")
SumX(o) ==
    LET rising == o.trend = "higher"
    IN  0 - 50 * Weight(o.claw = "yes" /\ DoseStage(o.phase) = "VEG")
        + 50 * Weight(o.caMgDeficiency = "yes")
        - 40 * Weight(o.tipburn = "yes" /\ ~rising)
        - 60 * Weight(o.tipburn = "yes" /\ rising)
        + 20 * Weight(o.tipburn = "no" /\ o.trend = "lower" /\ o.claw = "no"
                      /\ DoseStage(o.phase) = "P47")
        + 30 * Weight(o.phDrift = "high")
        - 30 * Weight(o.phDrift = "low")
SumBZ(o, bz) ==
    LET rising == o.trend = "higher"
    IN  0 - 30 * Weight(o.tipburn = "yes" /\ ~rising /\ bz > 0)
        - 45 * Weight(o.tipburn = "yes" /\ rising /\ bz > 0)
        + 20 * Weight(o.tipburn = "no" /\ o.trend = "lower" /\ o.claw = "no"
                      /\ bz > 0 /\ DoseStage(o.phase) \in {"P23", "P47"})
        + 20 * Weight(o.phDrift = "high" /\ bz > 0)
        - 20 * Weight(o.phDrift = "high" /\ rising)
        - 20 * Weight(o.phDrift = "low" /\ bz > 0)
OnlyClaw(o) ==
    /\ o.claw = "yes" /\ o.trend = "neutral" /\ o.tipburn = "no"
    /\ o.pale = "no" /\ o.caMgDeficiency = "no" /\ o.phDrift = "normal"

\* C13: calculate_dose sums all heuristic deltas and floors once: for every
\* plan entry and every observation combination the adjusted A, X and BZ are
\* max(0, round2(base + sum of the deltas of the fired rules)), never
\* negative; base A = 1.0, X = 1.0 in veg with only claw = yes gives A = 0.92
\* and X = 0.95.
C13_SumThenFloor ==
    IsDose =>
        LET o == calc.arg[1]
            e == calc.arg[2]
            adj == calc.out.adjustedValues
        IN  /\ FlooredRound(10 * e.A + SumA(o), adj.A)
            /\ FlooredRound(10 * e.X + SumX(o), adj.X)
            /\ FlooredRound(10 * e.BZ + SumBZ(o, e.BZ), adj.BZ)
            /\ adj.A >= 0 /\ adj.X >= 0 /\ adj.BZ >= 0
            /\ (e.phase = MidVeg /\ OnlyClaw(o)) => (adj.A = 92 /\ adj.X = 95)

\* ----------------------------------------------------------------- C14
\* The phases of the coco plan, written out.
KnownPhases ==
    {EarlyVeg, MidVeg, LateVeg} \cup {Week(n) : n \in 1 .. 10}
\* Liters that are <= 0 or not finite, or a phase the plan does not hold.
InvalidInput(call) ==
    \/ call.liters \in {NaN, Infinity}
    \/ call.liters <= 0
    \/ call.week_key \notin KnownPhases \cup {LooseMidVeg}
IsMixCall(call) == call.op \in {"mix_tank", "preview_plan"}

\* C14: preview_plan and mix_tank answer liters that are <= 0 or not finite,
\* and a phase that is not in the plan, with an input error (ValueError); a
\* rejected mix_tank consumes nothing: it never reaches the load or the save of
\* the state, and the state file changes only for a call with valid input.
C14_InvalidInputRejected ==
    /\ [](\A p \in Proc :
            (IsMixCall(ecall[p]) /\ InvalidInput(ecall[p])) =>
               (eout[p].kind = "ValueError" /\ epc[p] = "idle"))
    /\ [][state_file' # state_file =>
            \E p \in Proc : epc[p] = "save" /\ ~InvalidInput(ecall[p])]_vars

\* A mix_tank with liters <= 0 has been rejected and the stock is as it was.
C14_Witness ==
    /\ ecall[1].op = "mix_tank" /\ ecall[1].liters = 0
    /\ eout[1].kind = "ValueError"
    /\ epc[1] = "idle"
    /\ state_file = stock0

\* ----------------------------------------------------------------- C15
\* Caller p holds the result of a preview_plan or a mix_tank.
HasMix(p) == IsMixCall(ecall[p]) /\ eout[p].kind = "ok"
\* The solid top dress due for a call: 4 g per plant in week 1, none otherwise
\* (3 plants, or 1 where the setting is not a number).
TopDressDue(call) ==
    IF call.week_key = Week(1)
    THEN 400 * (IF plants_count.int THEN plants_count.n ELSE 1)
    ELSE 0

\* C15: for every phase and liters the tank mix of preview_plan and mix_tank
\* holds no shield; the top dress, when positive, is the one entry of the
\* top_dress list, and every entry of that list carries the instruction not to
\* mix it into the tank.
C15_TopDressApart ==
    \A p \in Proc :
        HasMix(p) =>
            /\ SHIELD_KEY \notin DOMAIN eout[p].mix
            /\ DOMAIN eout[p].mix = MixKeys \ {SHIELD_KEY}
            /\ \A i \in 1 .. Len(eout[p].top_dress) :
                  /\ eout[p].top_dress[i].key = SHIELD_KEY
                  /\ eout[p].top_dress[i].amount > 0
                  /\ eout[p].top_dress[i].instruction =
                        "Nicht in den Tank mischen! Um den Stamm streuen."
            /\ IF TopDressDue(ecall[p]) > 0
               THEN /\ Len(eout[p].top_dress) = 1
                    /\ eout[p].top_dress[1].amount = TopDressDue(ecall[p])
               ELSE eout[p].top_dress = <<>>

\* A confirmed (W1, 10 l) mix has returned with the shield as top dress and a
\* preview of a veg phase with none.
C15_Witness ==
    /\ ecall[1].op = "mix_tank" /\ ecall[1].week_key = Week(1)
    /\ HasMix(1) /\ Len(eout[1].top_dress) = 1
    /\ ecall[2].op = "preview_plan" /\ ecall[2].week_key = LooseMidVeg
    /\ HasMix(2) /\ eout[2].top_dress = <<>>

\* ----------------------------------------------------------------- C16
\* A label without blanks at its ends.
Trimmed(s) == s = <<>> \/ (~IsSpace(s[1]) /\ ~IsSpace(s[Len(s)]))
\* A label that is not empty after trimming.
Accepted(x) == \E k \in 1 .. Len(x) : ~IsSpace(x[k])
\* A label in canonical form: W and a number without leading zeros, or one of
\* the three veg labels, or any other trimmed label.
Canonical(s) ==
    /\ Trimmed(s) /\ s # <<>>
    /\ (Len(s) >= 2 /\ s[1] \in {"W", "w"} /\ \A i \in 2 .. Len(s) : IsDigit(s[i]))
          => (s[1] = "W" /\ (s[2] # "0" \/ Len(s) = 2))

\* C16: _normalize_phase is a fixed point on its results: for every label x it
\* accepts (not empty after trimming), _normalize_phase(_normalize_phase(x))
\* equals _normalize_phase(x), and the result is in canonical form.
C16_NormalizeFixedPoint ==
    (calc.fn = "_normalize_phase" /\ Accepted(calc.arg[1])) =>
        /\ ~calc.out.once.err
        /\ calc.out.twice = calc.out.once
        /\ Canonical(calc.out.once.phase)

\* " W03 " has been canonicalized to W3, and W3 to itself.
C16_Witness ==
    /\ calc.fn = "_normalize_phase"
    /\ calc.arg = << <<" ", "W", "0", "3", " ">> >>
    /\ calc.out.once = [err |-> FALSE, phase |-> <<"W", "3">>]
    /\ calc.out.twice = calc.out.once


\* The combos whose default plan is read-only.
ReadOnlyCombos == {c \in Combos : Cultivar(c) = "wedding_cake"}
\* The stored override of a combo, if any.
OverrideOf(c) == IF c \in DOMAIN default_overrides THEN <<default_overrides[c]>> ELSE <<>>
\* The last route called was fn, for combo c.
Called(fn, c) == plan_out.fn = fn /\ plan_out.combo = c
\* C17: the default plan of wedding_cake is read-only: upsert_plan and
\* delete_plan of the plan with id 'default' answer 400, no step changes the
\* stored override of the combo, and read_default_plan returns the built-in
\* template, also when the store holds an override for the combo.
C17_ReadOnlyDefault ==
    /\ [](\A c \in ReadOnlyCombos :
            /\ Called("upsert_plan", c) /\ plan_out.arg.id = "default"
                  => plan_out.status = 400
            /\ Called("delete_plan", c) /\ plan_out.arg = "default"
                  => plan_out.status = 400
            /\ Called("read_default_plan", c)
                  => plan_out.plans = <<BASE_PLAN_TEMPLATES(Substrate(c))>>)
    /\ [][\A c \in ReadOnlyCombos : OverrideOf(c)' = OverrideOf(c)]_vars
\* read_default_plan answered for wedding_cake after plan routes were called,
\* while the store holds an override for the combo.
C17_Witness ==
    \E c \in ReadOnlyCombos :
        /\ Called("read_default_plan", c)
        /\ c \in DOMAIN default_overrides
        /\ plan_ops = MaxPlanOps
        /\ plan_out.plans = <<BASE_PLAN_TEMPLATES(Substrate(c))>>


\* The positions of a list of plans that hold a plan of the id, or one flagged
\* as default.
WithId(plans, id) == {i \in 1 .. Len(plans) : plans[i].id = id}
Flagged(plans) == {i \in 1 .. Len(plans) : plans[i].isDefault}
\* C18: for every combo the list of available plans contains exactly one
\* default plan: one plan has id 'default' and isDefault = true, no other plan
\* has either, and no stored custom plan has id 'default' or isDefault = true.
C18_OneDefault ==
    \A c \in Combos :
        /\ Cardinality(WithId(_get_available_plans(c), "default")) = 1
        /\ Flagged(_get_available_plans(c)) = WithId(_get_available_plans(c), "default")
        /\ WithId(StoredPlans(c), "default") = {}
        /\ Flagged(StoredPlans(c)) = {}
\* create_plan has stored a custom plan with the id 'default', flagged as
\* default, so that two available plans carry the id.
C18_Witness ==
    \E c \in Combos :
        /\ Called("create_plan", c)
        /\ plan_out.status = 200
        /\ plan_out.plans[1].id = "default"
        /\ plan_out.plans[1].isDefault
        /\ Cardinality(WithId(_get_available_plans(c), "default")) = 2


\* The stored active plan id of a combo: 'default' when none is stored.
ActiveId(c) == IF c \in DOMAIN active_ids THEN active_ids[c] ELSE "default"
\* The ids of the stored custom plans of a combo.
CustomIds(c) == {StoredPlans(c)[i].id : i \in 1 .. Len(StoredPlans(c))}
PointerValid(c) == ActiveId(c) = "default" \/ ActiveId(c) \in CustomIds(c)
\* The step is a call of route fn for combo c: a mutating route counts in
\* plan_ops, a reading route does not.
ReadRoutes ==
    {"read_default_plan", "read_custom_plans", "read_available_plans", "read_active_plan"}
PlanStep(fn, c) ==
    /\ plan_out'.fn = fn
    /\ plan_out'.combo = c
    /\ IF fn \in ReadRoutes THEN plan_ops' = plan_ops ELSE plan_ops' = plan_ops + 1
\* C19: no route called on its own makes a valid active id invalid, valid
\* meaning 'default' or the id of a stored custom plan of the combo;
\* set_active_plan answers 404 for an id that is not available and leaves the
\* stored id as it is; delete_plan of the active custom plan leaves 'default'
\* stored; read_active_plan leaves a valid id stored, 'default' when the
\* stored one was unknown.
C19_ActiveIdValid ==
    [][\A c \in Combos :
        /\ PointerValid(c) => PointerValid(c)'
        /\ \A id \in PlanIds :
              PlanStep("set_active_plan", c) /\ plan_out'.arg = id
                    /\ id \notin CustomIds(c) \cup {"default"}
                 => plan_out'.status = 404 /\ active_ids' = active_ids
        /\ \A id \in PlanIds \ {"default"} :
              PlanStep("delete_plan", c) /\ plan_out'.arg = id
                    /\ id \in CustomIds(c) /\ ActiveId(c) = id
                 => plan_out'.status = 200 /\ ActiveId(c)' = "default"
        /\ PlanStep("read_active_plan", c)
              => /\ PointerValid(c)'
                 /\ ~PointerValid(c) => ActiveId(c)' = "default"
                 /\ PointerValid(c) => active_ids' = active_ids]_vars
\* read_active_plan found the id of a plan that is gone and stored 'default'.
C19_Witness ==
    \E c \in Combos :
        /\ Called("read_active_plan", c)
        /\ plan_out.planId \notin CustomIds(c) \cup {"default"}
        /\ c \in DOMAIN active_ids
        /\ active_ids[c] = "default"


\* The plans the store holds as custom plans or as overrides written by
\* upsert_plan, and the plans the last call of create_plan, upsert_plan or
\* read_custom_plans returned.
HandledPlans ==
    UNION {{custom_plans[c][i] : i \in 1 .. Len(custom_plans[c])} : c \in DOMAIN custom_plans}
    \cup {default_overrides[c] : c \in DOMAIN default_overrides}
    \cup IF plan_out.fn \in {"create_plan", "upsert_plan", "read_custom_plans"}
         THEN {plan_out.plans[i] : i \in 1 .. Len(plan_out.plans)}
         ELSE {}
ShareAndDaysNormal(plan) ==
    /\ plan.osmosisShare >= 0
    /\ plan.osmosisShare <= 100
    /\ \A i \in 1 .. Len(plan.plan) : plan.plan[i].durationDays >= 1
\* C20: every plan stored or returned by create_plan, upsert_plan and
\* read_custom_plans has its osmosisShare in [0, 1], durationDays >= 1 in every
\* entry, and a SilicateUnit that is per_liter or per_plant in every entry.
C20_Normalized ==
    \A plan \in HandledPlans :
        /\ ShareAndDaysNormal(plan)
        /\ \A i \in 1 .. Len(plan.plan) :
              plan.plan[i].SilicateUnit \in {"per_liter", "per_plant"}
\* C20, amended: every such plan has its osmosisShare in [0, 1] and
\* durationDays >= 1 in every entry; the SilicateUnit of an entry is per_liter,
\* per_plant or None, and it is per_liter or per_plant whenever the entry has a
\* Silicate amount other than 0.
C20_NormalizedUnitOptional ==
    \A plan \in HandledPlans :
        /\ ShareAndDaysNormal(plan)
        /\ \A i \in 1 .. Len(plan.plan) :
              /\ plan.plan[i].SilicateUnit \in {"per_liter", "per_plant", "None"}
              /\ Truthy(plan.plan[i].Silicate)
                    => plan.plan[i].SilicateUnit \in {"per_liter", "per_plant"}
\* create_plan or upsert_plan was given a negative osmosisShare, a negative
\* durationDays and an entry without silicate, and returned the plan with share
\* 0, one day, and no unit for that entry.
C20_Witness ==
    /\ plan_out.fn \in {"create_plan", "upsert_plan"}
    /\ plan_out.status = 200
    /\ plan_out.arg.osmosisShare = Some(0 - 50)
    /\ plan_out.arg.plan[1].durationDays = Some(0 - 3)
    /\ plan_out.plans[1].osmosisShare = 0
    /\ plan_out.plans[1].plan[1].durationDays = 1
    /\ plan_out.plans[1].plan[2].Silicate = None
    /\ plan_out.plans[1].plan[2].SilicateUnit = "None"
    /\ plan_out.plans[1] \in {custom_plans[plan_out.combo][i] :
                                 i \in 1 .. Len(custom_plans[plan_out.combo])}


\* The plans the store holds: custom plans and overrides of default plans.
StoredPlanSet ==
    UNION {{custom_plans[c][i] : i \in 1 .. Len(custom_plans[c])} : c \in DOMAIN custom_plans}
    \cup {default_overrides[c] : c \in DOMAIN default_overrides}
PhasesUnique(entries) ==
    \A i, j \in 1 .. Len(entries) : entries[i].phase = entries[j].phase => i = j
\* C21: phase keys are unique within every plan: no plan that create_plan or
\* upsert_plan accepted and stored, and no plan a route returns, has two
\* entries with the same phase.
C21_PhasesUnique ==
    /\ \A plan \in StoredPlanSet : PhasesUnique(plan.plan)
    /\ \A i \in 1 .. Len(plan_out.plans) : PhasesUnique(plan_out.plans[i].plan)
\* create_plan or upsert_plan answered 200 for a plan with two entries of one
\* phase, and the plan is stored.
C21_Witness ==
    /\ plan_out.fn \in {"create_plan", "upsert_plan"}
    /\ plan_out.status = 200
    /\ ~PhasesUnique(plan_out.plans[1].plan)
    /\ plan_out.plans[1] \in StoredPlanSet


\* ----------------------------------------------------------------- C22
\* C22: check_refill_needed returns an alert, with the reorder URL of the
\* component, for exactly the components whose amount in inventory.json at the
\* time of the call is below their warn threshold.
C22_AlertsExact ==
    calc.fn = "check_refill_needed" =>
        /\ {a.key : a \in calc.out} =
              {k \in ConfigKeys : calc.arg[k] < InventoryConfig[k].threshold_warn}
        /\ \A a \in calc.out :
              /\ a.reorder_url = "https://growmind.ai/shop/" \o a.key
              /\ \A b \in calc.out : a.key = b.key => a = b
\* check_refill_needed answered after a deduction had changed the stock: some
\* components are below their threshold and alerted, others are not.
C22_Witness ==
    /\ calc.fn = "check_refill_needed"
    /\ calc.arg # stock0
    /\ calc.out # {}
    /\ \E k \in ConfigKeys :
          /\ InventoryConfig[k].threshold_warn > 0
          /\ calc.arg[k] >= InventoryConfig[k].threshold_warn
          /\ \A a \in calc.out : a.key # k


\* ----------------------------------------------------------------- C23
IsRecipeCall == calc.fn \in {"_normalize_recipe", "_normalize_recipe_weights"}
HasPositive(raw) == \E s \in DOMAIN raw : raw[s] > 0
\* The scaled amounts and their total stay inside the range of a float.
InFloatRange(raw, scale) ==
    /\ scale # TinyScale
    /\ scale = HugeScale => Total([s \in DOMAIN raw |-> Max(0, raw[s])]) < 180
\* C23: for a raw recipe with a positive amount and any two positive scale
\* factors the returned amounts sum to the target total 1000 and are the same
\* under both factors; for a recipe without a positive amount every returned
\* amount is 0.
C23_ScaleInvariant ==
    IsRecipeCall =>
        IF HasPositive(calc.arg[1])
        THEN /\ FracSum(calc.out[1]) = <<1000, 1>>
             /\ FracSum(calc.out[2]) = <<1000, 1>>
             /\ calc.out[1] = calc.out[2]
        ELSE \A s \in DOMAIN calc.arg[1] : calc.out[1][s] = <<0, 1>> /\ calc.out[2][s] = <<0, 1>>
\* C23, amended: the same, for scale factors under which the scaled amounts and
\* their total stay inside the float range (no overflow to inf, no underflow).
C23_ScaleInvariantInRange ==
    IsRecipeCall /\ InFloatRange(calc.arg[1], calc.arg[2]) /\ InFloatRange(calc.arg[1], calc.arg[3]) =>
        IF HasPositive(calc.arg[1])
        THEN /\ FracSum(calc.out[1]) = <<1000, 1>>
             /\ FracSum(calc.out[2]) = <<1000, 1>>
             /\ calc.out[1] = calc.out[2]
        ELSE \A s \in DOMAIN calc.arg[1] : calc.out[1][s] = <<0, 1>> /\ calc.out[2][s] = <<0, 1>>
\* _normalize_recipe returned the same amounts under the factors 1.06 and 1.73,
\* for a recipe with a positive and a negative amount: the negative one is 0,
\* the others are 250 and 750.
C23_Witness ==
    /\ calc.fn = "_normalize_recipe"
    /\ calc.arg = <<[MgSO4 |-> 50, KNO3 |-> 0 - 20, MKP |-> 150], 106, 173>>
    /\ calc.out[1] = [MgSO4 |-> <<250, 1>>, KNO3 |-> <<0, 1>>, MKP |-> <<750, 1>>]
    /\ calc.out[2] = calc.out[1]


\* ----------------------------------------------------------------- C24
\* Every store_set that has returned is in the dict d with its data.
HoldsAllDone(d) == \A c \in pf_done : c[1] \in DOMAIN d /\ d[c[1]] = c[2]
\* C24: store_set holds the store lock from its read to the end of its write;
\* whenever the lock is free the store holds the key of every store_set that
\* has returned, with the data written for it; and every _load_store returns a
\* store that holds all of them, never the file a writer has emptied.
C24_NoLostStoreUpdate ==
    /\ [](/\ \A p \in Proc :
                pf_pc[p] \in {"set_read", "set_open", "set_dump", "set_unlock", "load_read"}
                   => pf_lock = p
          /\ pf_lock = NoProc => pf_file # Truncated /\ HoldsAllDone(pf_file))
    /\ [][\A p \in Proc :
             pf_pc[p] = "load_read" /\ pf_pc'[p] = "unlock" => HoldsAllDone(pf_data'[p])]_vars
\* Two workers have stored their keys, a third store_set has emptied the file
\* and not yet written it, and a _load_store of another worker waits for the lock.
C24_Witness ==
    /\ pf_file = Truncated
    /\ \E c, d \in pf_done : c[2] # d[2]
    /\ \E p, q \in Proc : pf_pc[p] = "set_dump" /\ pf_pc[q] = "load_lock"

\* The number of model calls the arguments of the running call allow.
TriesAllowed == IF gen.tries = None THEN _retry_settings.tries ELSE gen.tries[1]
\* C25: _generate_json_with_retry makes at most `tries` model calls; an APIError
\* with code 429, 500, 502, 503 or 504 on a non-final attempt is followed by
\* one sleep, one reset of the cached client and a further attempt, and an
\* APIError with any other code is raised at once, with no sleep, no reset of
\* the client and no further call.
C25_RetryOnlyRetryable ==
    /\ [](gen.pc # "idle" => gen.calls <= TriesAllowed)
    /\ [][gen'.calls # gen.calls =>
            /\ gen.pc = "loop"
            /\ gen'.calls = gen.calls + 1
            /\ gen'.last.kind = "APIError" =>
                  IF gen'.last.code \in {429, 500, 502, 503, 504}
                    THEN gen.calls + 1 < TriesAllowed =>
                            /\ Len(gen'.slept) = Len(gen.slept) + 1
                            /\ gen'.resets = gen.resets + 1
                            /\ CLIENT' = "None"
                            /\ gen'.pc = "loop"
                    ELSE /\ gen'.pc = "raised"
                         /\ gen'.slept = gen.slept
                         /\ gen'.resets = gen.resets
                         /\ CLIENT' = "client"]_vars
\* After a 503 and one sleep and reset, the second call raised a 400.
C25_Witness ==
    /\ gen.pc = "raised"
    /\ gen.calls = 2
    /\ gen.last.code = 400
    /\ Len(gen.slept) = 1
    /\ gen.resets = 1

\* calculate_dose has returned a result for a phase of the plan.
DoseReturned == calc.fn = "calculate_dose" /\ ~calc.out.none
\* C26: in calculate_dose the paleness rule is skipped once the leaf-claw rule
\* has fired: with claw = yes the adjusted A is what the same observation
\* without paleness gives.
C26_PaleSkippedAfterClaw ==
    DoseReturned /\ calc.arg[1].claw = "yes" =>
        calc.out.adjustedValues.A
           = AdjustedValues([calc.arg[1] EXCEPT !.pale = "no"], calc.arg[2]).A
\* Claw and paleness with a steady EC in mid veg: A is 1.02 g/L, the 0.92 of
\* the claw rule plus the 0.10 of the paleness rule.
C26_Witness ==
    /\ DoseReturned
    /\ calc.arg[1] = [phase |-> MidVeg, trend |-> "neutral", tipburn |-> "no", pale |-> "yes",
                      caMgDeficiency |-> "no", claw |-> "yes", phDrift |-> "normal"]
    /\ calc.arg[2].A = 100
    /\ calc.out.adjustedValues.A = 102

\* C27: for a phase of stage class RIPEN the A amount of calculate_dose is 0,
\* whatever the A of the plan entry and whatever the observation adds.
C27_NoAInRipen ==
    DoseReturned /\ calc.out.stageClass = "RIPEN" => calc.out.adjustedValues.A = 0
\* Week 10 of the built-in coco plan (A 0) with a low pH drift: A is 0.05 g/L.
C27_Witness ==
    /\ DoseReturned
    /\ calc.out.stageClass = "RIPEN"
    /\ calc.arg[2].A = 0
    /\ calc.arg[1].phDrift = "low"
    /\ calc.out.adjustedValues.A = 5

\* C28: a consumption never increases a stock: every write of apply_consumption
\* to the ledger and every write of _consume_mix to the state file leaves each
\* component's amount at or below the amount stored before it.
C28_ConsumptionNeverIncreases ==
    [][/\ ops' = ops => \A k \in COMPONENT_KEYS : inventory'[k].grams <= inventory[k].grams
       /\ eops' = eops /\ state_file # CorruptFile /\ state_file' # CorruptFile =>
             \A k \in ConfigKeys : state_file'[k] <= state_file[k]]_vars

\* Worker w's route has returned normally.
Served(w, route) == req[w].route = route /\ req[w].phase = "done" /\ req[w].status = 200
PlanIsStored(id) ==
    /\ BusyCombo \in DOMAIN custom_plans
    /\ \E i \in 1 .. Len(custom_plans[BusyCombo]) : custom_plans[BusyCombo][i].id = id
\* C29: when a create_plan of a custom plan and a set_active_plan or an
\* upsert_plan of the default override have run at the same time on a store
\* and both have returned, the custom plan is stored and so is the new active
\* id, or the new override.
C29_BothEffectsPresent ==
    \A w, v \in PlanWorkers :
        (w # v /\ req_ops = 2 /\ Served(w, "create_plan")) =>
            /\ Served(v, "set_active_plan") =>
                  /\ PlanIsStored(req[w].plan[1].id)
                  /\ _get_active_plan_id(BusyCombo) = req[v].planId
            /\ Served(v, "upsert_plan") =>
                  /\ PlanIsStored(req[w].plan[1].id)
                  /\ BusyCombo \in DOMAIN default_overrides
                  /\ default_overrides[BusyCombo] = req[v].plan[1]
\* create_plan and set_active_plan('default') have both returned on the store
\* whose active id was p7: the plan is stored, the active id is p7 again.
C29_Witness ==
    \E w, v \in PlanWorkers :
        /\ req_ops = 2
        /\ Served(w, "create_plan")
        /\ Served(v, "set_active_plan")
        /\ req[v].planId = "default"
        /\ PlanIsStored("p1")
        /\ _get_active_plan_id(BusyCombo) = "p7"

\* C30: the planId of a response of read_active_plan is the id of its plan.
C30_ActiveResponseConsistent ==
    \A w \in PlanWorkers :
        Served(w, "read_active_plan") => req[w].planId = req[w].plan[1].id
\* set_active_plan('p1') passed its check, delete_plan('p1') removed the plan,
\* set_active_plan stored the id: read_active_plan answers planId p1 with the
\* default plan.
C30_Witness ==
    \E w \in PlanWorkers :
        /\ Served(w, "read_active_plan")
        /\ req[w].planId = "p1"
        /\ req[w].plan[1].id = "default"
        /\ ~PlanIsStored("p1")

====
